---- MODULE Spec2Model ----
(***************************************************************************)
(* Navigation graph and path queries of ink-and-iron.                      *)
(*                                                                         *)
(* The model follows the pathfinding crate (src/pathfinding/src/lib.rs):   *)
(* get_graph builds a petgraph Graph<CellId, f32> from the WorldMap, and   *)
(* a_star answers a single-pair query over it.  The WorldMap is the input: *)
(* a set of cells with a position (x, y = height, z) and a neighbour list. *)
(*                                                                         *)
(* f32 lengths are modelled in fixed point: a length is an integer number  *)
(* of 1/Unit world units, and the square root is rounded down.             *)
(***************************************************************************)
EXTENDS Integers, Sequences, FiniteSets, TLC

(***************************************************************************)
(* Bounds of the model.                                                    *)
(***************************************************************************)
\* number of cells of the map (CellId 1..NumCells)
NumCells == 5
\* the cells are laid out column by column on a strip of 1..MaxRows rows
MaxRows == 2
\* horizontal distance between two neighbouring sites of the strip
Spacing == 10
\* a cell's height is a multiple 0..MaxLevel of LevelStep
LevelStep == 3
MaxLevel == 2
\* fixed-point resolution of a length: 1/Unit of a world unit
Unit == 100
\* number of callers that may dispatch a query against the same graph
NumCallers == 2
\* number of times the graph is built from the same WorldMap
MaxBuilds == 2
\* the HashMap iteration orders considered: the ascending and the descending
\* order of the cells, each rotated by 0..MaxShift places
MaxShift == 0

\* the spatial provider of the Region Grower is a GridW x GridH grid of cells
GridW == 3
GridH == 3
\* the target count K of seed regions
NumSeeds == 2

\* the Plate Kinematics Model works on a KinW x KinW grid of cells, a cell
\* adjacent to every cell next to it, diagonals included
KinW == 2
\* the number of plates, and the box -VMax..VMax a velocity component is from
NumPlates == 2
VMax == 1

\* the Height Assembler works on a ring of NumHeightCells cells
NumHeightCells == 4
\* an assembled height is -HMax, -1, 0, 1, HMax (in the smallest step that an
\* assembled height resolves) or is not finite
HMax == 6
\* a normalized height is a multiple of 1/(2 * HalfUnit): 0.5 is HalfUnit
HalfUnit == 2
\* the configured flow threshold of river carving
FlowThreshold == 2

\* the generation phase has NumPlayers players, whose civilisations have
\* unit types among NumUnitTypes
NumPlayers == 2
NumUnitTypes == 2
\* the longest list a request to the LLM module returns
MaxListLen == 1
\* the LLM module: a String has at most MaxStrLen bytes out of NumBytes valid
\* ones, a seed list at most MaxSeeds Strings, and MaxCalls calls are made
NumBytes == 2
MaxStrLen == 2
MaxSeeds == 2
MaxCalls == 2
NumFieldCells == 5
NumSeedKinds == 2
MeanEdge == 3
LayerWeight == 2
FalloffWidth == 4
UnitSpeed == 25
NumTasks == 3
Today == 3

(***************************************************************************)
(* Program constants.                                                      *)
(***************************************************************************)
\* the slope threshold 0.3 = MaxSlopeNum / MaxSlopeDen  (if slope < 0.3)
MaxSlopeNum == 3
MaxSlopeDen == 10
\* river carving: the carved depth is CarveGain * flow^(1/2), and the chosen
\* successor loses 1/SuccessorShare of it
CarveGain == 2
SuccessorShare == 2
\* boundary classification: |s| is at least 60% of |v_rel|
ApproachNum == 6
ApproachDen == 10
\* the stages of the generation pipeline: plates, their kinematics, heights
GenStages == 3

Cells == 1..NumCells
Callers == 1..NumCallers
Levels == {l * LevelStep : l \in 0..MaxLevel}

VARIABLES
    rows,          \* WorldMap: number of rows of the strip the sites lie on
    cell_height,   \* WorldMap: CellId -> height (the y of the cell position)
    nbr_desc,      \* WorldMap: get_neighbours lists neighbours in descending id order
    graph,         \* PathFinding.graph: [nodes: Seq(CellId), edges: Seq(edge)]
    nodes,         \* PathFinding.nodes: [index: CellId -> NodeIndex, order: iteration order]
    builds,        \* number of get_graph calls made so far
    prev_graph,    \* the graph that the last get_graph call replaced
    pc,            \* per caller: "idle", "loop" (inside a_star's while), "returned"
    start,         \* per caller: a_star's start argument
    goal,          \* per caller: a_star's goal argument
    open_list,     \* per caller: a_star's local open_list
    closed_list,   \* per caller: a_star's local closed_list
    result         \* per caller: the Option<Vec<CellId>> a_star returned

\* Region Grower (plates): the state of one run of the routine
VARIABLES
    cut,           \* spatial provider: 0, or k when columns k and k+1 share no link
    assignment,    \* the plate assignment: a set of [cell, region] claims
    snapshot,      \* the cells that were assigned when the current pass started
    todo,          \* the cells of the snapshot the sweep has not visited yet
    passes,        \* number of passes completed
    grow_pc        \* "off", "seed", "pass", "sweep", "done" or "failed"

\* Height Assembler: river carving, final normalization, and the spawn of the
\* world that reads the result
VARIABLES
    raw_height,    \* per cell: the height, [fin |-> is it finite, v |-> its value]
    pre_carve,     \* the heights as assembled, before river carving
    pre_norm,      \* the heights before the final normalization
    flow,          \* per cell: the accumulated flow
    height_pc      \* "off", "assemble", "assembled", "carved", "normalized",
                   \* "spawned" or "panicked"

\* Plate Kinematics Model
VARIABLES
    plate_of,      \* per cell: the PlateId the Region Grower assigned
    velocity,      \* per plate: its drift velocity [x, y]
    boundaries,    \* the BoundaryEdges derived: a set of [a, b, kind, normal]
    kin_pc         \* "off", "plates", "drawn", "velocities" or "classified"

\* Generation phase of the application (WorldPlugin)
VARIABLES
    entry,             \* who calls generate_world: "plugin" (gen_world) or "main"
    app_state,         \* AppState: "Menu", "Generating", "InGame" or "Exited"
    next_app_state,    \* NextState<AppState>: "Unchanged" or the pending state
    generation_state,  \* GenerationState; "Absent" outside AppState::Generating
    next_state,        \* NextState<GenerationState>: "Unchanged" or the pending state
    world_map,         \* the WorldMap resource: an Option of the generated world
    world_task,        \* the task running generate_world: [pc, stages]
    civ_units,         \* per player: civ.units, the unit types in order
    settlement_names,  \* per player: the length of Player.settlement_names
    name_task,         \* per player: the task of generate_settlement_name
    unit_spawn_barks,  \* per player: unit type -> length of its bark list
    bark_task,         \* per player: the task of generate_unit_spawn_barks
    cells_spawned,     \* spawn_world has spawned the cell entities
    last_deref,        \* the system that dereferenced WorldMap last
    failures           \* the panics and errors raised so far, oldest first

\* The LLM module
VARIABLES
    LLM,               \* the static LLM: "None", or the handle loaded
    llm_call,          \* the call in progress: its position and arguments
    rx,                \* the oneshot channel of the call
    llm_result,        \* what the last call returned: Ok(names) or an Err
    llm_calls          \* number of calls made so far

\* Distance Field Engine: the searches of one world
VARIABLES
    field_links,   \* the adjacency structure: the links between neighbouring cells
    field_seeds,   \* per seed kind searched so far: its seed set
    hop_count,          \* per seed kind searched so far: cell -> hop count, or INFINITE
    queue,         \* the queue of the search in progress
    contribution,  \* per seed kind and cell: what each falloff layer adds
    field_pc       \* "off", "seeds", "search", "falloff" or "done"

\* Unit movement (src/src/main.rs): one unit on the map
VARIABLES
    unit,         \* the Unit component, with the TurnAction marker of its entity
    last_system   \* the system that ran last: [system, player]

\* Concurrent callers of get_llm (src/llm/src/lib.rs)
VARIABLES
    task_pc,      \* per task: "idle", "read", "check", "write", "locked", "returned" or "panicked"
    task_mode,    \* per task: the llm_mode argument of its call
    task_handle,  \* per task: the handle get_llm returned, "None" before
    rwlock,       \* the RwLock around LLM: [readers, writer]
    loads         \* the runs of load_llm so far: [task, llm_mode, handle]

\* archive_old_logs (src/src/logs.rs): one call on a log directory
VARIABLES
    log_dir,  \* the entries of the log directory
    by_date,  \* date -> the paths collected for that date, in read_dir order
    archive,  \* date -> the zip archive of that date: [entries, finalized]
    job,      \* the position of the call: [pc, date, left]
    removed   \* the originals removed so far

world == <<rows, cell_height, nbr_desc>>
pathfinding == <<graph, nodes>>
kinematics == <<plate_of, velocity, boundaries, kin_pc>>
assembler == <<raw_height, pre_carve, pre_norm, flow, height_pc>>
query == <<pc, start, goal, open_list, closed_list, result>>
grower == <<cut, assignment, snapshot, todo, passes, grow_pc>>
states == <<app_state, next_app_state, generation_state, next_state>>
players == <<civ_units, settlement_names, name_task, unit_spawn_barks, bark_task>>
generation == <<entry, states, world_map, world_task, players, cells_spawned,
                last_deref, failures>>
llm == <<LLM, llm_call, rx, llm_result, llm_calls>>
field == <<field_links, field_seeds, hop_count, queue, contribution, field_pc>>
movement == <<unit, last_system>>
loader == <<task_pc, task_mode, task_handle, rwlock, loads>>
logs == <<log_dir, by_date, archive, job, removed>>

\* the state kept by the other components
outside_pathfinding == <<grower, assembler, kinematics, generation, llm,
    field,
    movement,
    loader,
    logs>>
outside_grower == <<world, pathfinding, builds, prev_graph, query, assembler, kinematics,
                    generation, llm,
    field,
    movement,
    loader,
    logs>>
outside_assembler == <<world, pathfinding, builds, prev_graph, query, grower, kinematics,
                       generation, llm,
    field,
    movement,
    loader,
    logs>>
outside_kinematics == <<world, pathfinding, builds, prev_graph, query, grower, assembler,
                        generation, llm,
    field,
    movement,
    loader,
    logs>>
outside_generation == <<world, pathfinding, builds, prev_graph, query, grower, assembler,
                        kinematics, llm,
    field,
    movement,
    loader,
    logs>>
outside_llm == <<world, pathfinding, builds, prev_graph, query, grower, assembler,
                 kinematics, generation,
    field,
    movement,
    loader,
    logs>>
outside_field == <<world, pathfinding, builds, prev_graph, query,
    grower, assembler, kinematics, generation, llm,
    movement,
    loader,
    logs>>

\* the Distance Field Engine is not running
FieldOff ==
    /\ field_links = {}
    /\ field_seeds = <<>>
    /\ hop_count = <<>>
    /\ queue = <<>>
    /\ contribution = <<>>
    /\ field_pc = "off"
outside_movement == <<world, pathfinding, builds, prev_graph, query,
    grower, assembler, kinematics, generation, llm, field,
    loader,
    logs>>

\* no unit has been spawned
MovementOff ==
    /\ unit = <<>>
    /\ last_system = [system |-> "off", player |-> 0]
outside_loader == <<world, pathfinding, builds, prev_graph, query,
    grower, assembler, kinematics, generation, llm_call, rx, llm_result, llm_calls, field, movement,
    logs>>

\* no task calls get_llm concurrently
LoaderOff ==
    /\ task_pc = <<>>
    /\ task_mode = <<>>
    /\ task_handle = <<>>
    /\ rwlock = [readers |-> {}, writer |-> 0]
    /\ loads = <<>>
outside_logs == <<world, pathfinding, builds, prev_graph, query,
    grower, assembler, kinematics, generation, llm, field, movement, loader>>

\* archive_old_logs is not running
LogsOff ==
    /\ log_dir = {}
    /\ by_date = <<>>
    /\ archive = <<>>
    /\ job = [pc |-> "off", date |-> 0, left |-> <<>>]
    /\ removed = {}

\* the LLM module is not in use
LlmOff ==
    /\ LLM = "None"
    /\ llm_call = [pc |-> "idle", op |-> "none", llm_mode |-> "None", seeds |-> <<>>,
                   loaded |-> "None", ops |-> "None"]
    /\ rx = [state |-> "none", names |-> <<>>]
    /\ llm_result = [ok |-> FALSE, names |-> <<>>]
    /\ llm_calls = 0

vars == <<rows, cell_height, nbr_desc, graph, nodes, builds, prev_graph,
          pc, start, goal, open_list, closed_list, result, grower, assembler,
          kinematics, generation, llm,
    field,
    movement,
    loader,
    logs>>

\* the application has not been started
GenerationOff ==
    /\ entry = "plugin"
    /\ app_state = "Menu"
    /\ next_app_state = "Unchanged"
    /\ generation_state = "Absent"
    /\ next_state = "Unchanged"
    /\ world_map = [some |-> FALSE, stages |-> 0]
    /\ world_task = [pc |-> "none", stages |-> 0]
    /\ civ_units = <<>>
    /\ settlement_names = <<>>
    /\ name_task = <<>>
    /\ unit_spawn_barks = <<>>
    /\ bark_task = <<>>
    /\ cells_spawned = FALSE
    /\ last_deref = "none"
    /\ failures = <<>>

\* the Plate Kinematics Model is not running
KinematicsOff ==
    /\ plate_of = <<>>
    /\ velocity = <<>>
    /\ boundaries = {}
    /\ kin_pc = "off"

\* the Height Assembler is not running
AssemblerOff ==
    /\ raw_height = <<>>
    /\ pre_carve = <<>>
    /\ pre_norm = <<>>
    /\ flow = <<>>
    /\ height_pc = "off"

\* the Region Grower is not running
GrowerOff ==
    /\ cut = 0
    /\ assignment = {}
    /\ snapshot = {}
    /\ todo = {}
    /\ passes = 0
    /\ grow_pc = "off"

(***************************************************************************)
(* glam vectors in fixed point.                                            *)
(***************************************************************************)
Abs(i) == IF i < 0 THEN -i ELSE i

RECURSIVE SqrtSearch(_, _, _)
SqrtSearch(n, lo, hi) ==
    IF lo >= hi THEN lo
    ELSE LET mid == (lo + hi + 1) \div 2
         IN  IF mid * mid <= n THEN SqrtSearch(n, mid, hi)
                               ELSE SqrtSearch(n, lo, mid - 1)

\* distance with the square root left out (Vec3::distance_squared)
distance_squared(a, b) ==
    LET dx == a.x - b.x
        dy == a.y - b.y
        dz == a.z - b.z
    IN  (dx * dx + dy * dy + dz * dz) * Unit * Unit

\* Vec3::distance: sqrt(dx^2 + dy^2 + dz^2), in 1/Unit
distance(a, b) ==
    LET dx == a.x - b.x
        dy == a.y - b.y
        dz == a.z - b.z
    IN  SqrtSearch((dx * dx + dy * dy + dz * dz) * Unit * Unit, 0,
                   (Abs(dx) + Abs(dy) + Abs(dz)) * Unit)

\* Vec3Swizzles::xz: the horizontal projection of a position
xz(p) == [x |-> p.x, y |-> 0, z |-> p.z]

\* heuristic(start, goal) = start.distance(goal) on Vec2
heuristic(a, b) == distance(a, b)

(***************************************************************************)
(* The WorldMap read API used by the pathfinding crate.                    *)
(***************************************************************************)
Col(c) == (c - 1) \div rows
Row(c) == (c - 1) % rows

\* world_map.get_position_for_cell(cell): x and z horizontal, y the height
get_position_for_cell(c) ==
    [x |-> Col(c) * Spacing, y |-> cell_height[c], z |-> Row(c) * Spacing]

\* the spatial neighbour relation of the strip: the four grid neighbours and
\* one diagonal (a triangulation of the sites)
Adjacent(a, b) ==
    LET dc == Col(b) - Col(a)
        dr == Row(b) - Row(a)
    IN  \/ Abs(dc) + Abs(dr) = 1
        \/ dc = 1 /\ dr = 1
        \/ dc = -1 /\ dr = -1

\* world_map.iter_cells(): the cells by ascending site
iter_cells == [i \in 1..NumCells |-> i]

\* world_map.get_neighbours(cell): the neighbours of a cell, in a fixed order
get_neighbours(c) ==
    LET by_id == IF nbr_desc THEN [i \in 1..NumCells |-> NumCells + 1 - i]
                             ELSE iter_cells
        IsNbr(n) == Adjacent(c, n)
    IN  SelectSeq(by_id, IsNbr)

(***************************************************************************)
(* get_graph (src/pathfinding/src/lib.rs:9-34).                            *)
(***************************************************************************)
Reverse(s) == [i \in 1..Len(s) |-> s[Len(s) + 1 - i]]
Rotate(s, k) == [i \in 1..Len(s) |-> s[((i - 1 + k) % Len(s)) + 1]]

\* the orders in which `nodes.iter()` may visit the cells
HashOrders ==
    {Rotate(iter_cells, k) : k \in 0..MaxShift}
        \cup {Rotate(Reverse(iter_cells), k) : k \in 0..MaxShift}

\* graph.add_node(cell_id) for every cell of iter_cells: NodeIndex from 0
NodeIndexOf(c) == c - 1

\* slope_admits with the height delta taken without .abs()
slope_admits_signed(c_pos, n_pos) ==
    LET length == distance(c_pos, n_pos)
        height == (c_pos.y - n_pos.y) * Unit
    IN  /\ length > 0
        /\ height * MaxSlopeDen < MaxSlopeNum * length

\* let slope = height / length; if slope < 0.3  (length = 0 gives NaN: no edge)
slope_admits(c_pos, n_pos) ==
    LET length == distance(c_pos, n_pos)
        height == Abs(c_pos.y - n_pos.y) * Unit
    IN  /\ length > 0
        /\ height * MaxSlopeDen < MaxSlopeNum * length

\* edges_of adding an edge only towards the neighbours of a higher site
edges_of_forward(cell_id) ==
    LET c_pos == get_position_for_cell(cell_id)
        Admitted(n_cell_id) ==
            /\ n_cell_id > cell_id
            /\ distance(c_pos, get_position_for_cell(n_cell_id)) > 0
            /\ Abs(c_pos.y - get_position_for_cell(n_cell_id).y) * Unit * MaxSlopeDen
                   < MaxSlopeNum * distance(c_pos, get_position_for_cell(n_cell_id))
        adm == SelectSeq(get_neighbours(cell_id), Admitted)
    IN  [i \in 1..Len(adm) |->
            [source |-> cell_id - 1,
             target |-> adm[i] - 1,
             weight |-> distance(c_pos, get_position_for_cell(adm[i]))]]

\* the inner loop of get_graph: the edges added for one cell of nodes.iter()
edges_of(cell_id) ==
    LET c_pos == get_position_for_cell(cell_id)
        Admitted(n_cell_id) == slope_admits(c_pos, get_position_for_cell(n_cell_id))
        adm == SelectSeq(get_neighbours(cell_id), Admitted)
    IN  [i \in 1..Len(adm) |->
            [source |-> NodeIndexOf(cell_id),
             target |-> NodeIndexOf(adm[i]),
             weight |-> distance(c_pos, get_position_for_cell(adm[i]))]]

RECURSIVE add_edges(_)
add_edges(order) ==
    IF order = <<>> THEN <<>>
    ELSE edges_of(Head(order)) \o add_edges(Tail(order))

\* get_graph leaving out an edge whose opposite edge was added before it
get_graph_dedup(order) ==
    LET all == add_edges(order)
        Fresh(i) == \A j \in 1..(i - 1) :
                        ~(all[j].source = all[i].target /\ all[j].target = all[i].source)
        RECURSIVE Kept(_)
        Kept(i) == IF i > Len(all) THEN <<>>
                   ELSE (IF Fresh(i) THEN <<all[i]>> ELSE <<>>) \o Kept(i + 1)
    IN  [graph |-> [nodes |-> iter_cells, edges |-> Kept(1)],
         nodes |-> [index |-> [c \in Cells |-> c - 1], order |-> order]]

\* get_graph(world_map) with `nodes` iterating in `order`
get_graph(order) ==
    [graph |-> [nodes |-> iter_cells, edges |-> add_edges(order)],
     nodes |-> [index |-> [c \in Cells |-> NodeIndexOf(c)], order |-> order]]

\* Graph::new() and HashMap::new(): nothing built yet
NoGraph == [nodes |-> <<>>, edges |-> <<>>]
NoNodes == [index |-> <<>>, order |-> <<>>]

\* the set of (source cell, target cell, weight) edges of a graph
EdgeSet(g) ==
    {[source |-> g.nodes[g.edges[i].source + 1],
      target |-> g.nodes[g.edges[i].target + 1],
      weight |-> g.edges[i].weight] : i \in 1..Len(g.edges)}

(***************************************************************************)
(* a_star (src/pathfinding/src/lib.rs:35-131).                             *)
(*                                                                         *)
(* An AStarNode is [cell_id, g, h, parent].  The source's parent is an     *)
(* owned clone of the node that was `current` when this node was pushed;   *)
(* that node was pushed to closed_list first and is never changed, so the  *)
(* parent is kept here as <<>> (None) or <<cell>> (Some), naming the       *)
(* closed_list entry of that cell.                                         *)
(***************************************************************************)
AStarNode(cell_id, g, h, parent) ==
    [cell_id |-> cell_id, g |-> g, h |-> h, parent |-> parent]

\* AStarNode::f
f(n) == n.g + n.h

\* Option<Vec<CellId>>
None == [some |-> FALSE, path |-> <<>>]
Some(path) == [some |-> TRUE, path |-> path]

\* the first open_list node of a_star(start, goal)
start_node(s, gl) ==
    AStarNode(s, 0,
              heuristic(xz(get_position_for_cell(s)), xz(get_position_for_cell(gl))),
              <<>>)

\* open_list.iter().min_by(|a, b| a.f().total_cmp(&b.f())): the first minimum
min_by(open) ==
    LET i == CHOOSE i \in 1..Len(open) :
                 /\ \A j \in 1..Len(open) : f(open[i]) <= f(open[j])
                 /\ \A j \in 1..(i - 1) : f(open[j]) > f(open[i])
    IN  open[i]

\* the open list with the retain left out: current stays in it
retain_all(open, current) == open

\* open_list.retain(|n| n.cell_id != current.cell_id)
retain(open, current) ==
    LET Keep(n) == n.cell_id # current.cell_id
    IN  SelectSeq(open, Keep)

\* closed_list.iter().any(|n| n.cell_id == n_cell_id)
in_closed(closed, n_cell_id) ==
    \E i \in 1..Len(closed) : closed[i].cell_id = n_cell_id

\* graph.edges_connecting(a, b).collect(): the edges a -> b, newest first
edges_connecting(a, b) ==
    LET Joins(e) == e.source = a /\ e.target = b
    IN  Reverse(SelectSeq(graph.edges, Joins))

\* the `if tent_g >= neighbor.g { continue; }` arm: when the tentative cost is
\* lower the arm falls through without a statement, so open_list is unchanged
on_open_neighbour(open, neighbor, tent_g, current) ==
    IF tent_g >= neighbor.g THEN open ELSE open

\* visit_neighbour stepping to a spatial neighbour whether or not the graph
\* has an edge to it
visit_neighbour_any(open, closed, current, n_cell_id, gl) ==
    IF in_closed(closed, n_cell_id) THEN open
    ELSE LET tent_g == current.g + distance(get_position_for_cell(current.cell_id),
                                            get_position_for_cell(n_cell_id))
             IsN(m) == m.cell_id = n_cell_id
         IN  IF SelectSeq(open, IsN) # <<>> THEN open
             ELSE Append(open,
                      AStarNode(n_cell_id, tent_g,
                          heuristic(xz(get_position_for_cell(n_cell_id)),
                                    xz(get_position_for_cell(gl))),
                          <<current.cell_id>>))

\* the body of `for n_cell_id in world_map.get_neighbours(current.cell_id)`
visit_neighbour(open, closed, current, n_cell_id, gl) ==
    IF in_closed(closed, n_cell_id) THEN open
    ELSE LET edges == edges_connecting(nodes.index[current.cell_id],
                                       nodes.index[n_cell_id])
         IN  IF edges = <<>> THEN open
             ELSE LET tent_g == current.g + edges[1].weight
                      IsN(m) == m.cell_id = n_cell_id
                      found == SelectSeq(open, IsN)
                  IN  IF found # <<>>
                      THEN on_open_neighbour(open, found[1], tent_g, current)
                      ELSE Append(open,
                               AStarNode(n_cell_id, tent_g,
                                   heuristic(xz(get_position_for_cell(n_cell_id)),
                                             xz(get_position_for_cell(gl))),
                                   <<current.cell_id>>))

\* the for loop left after its first neighbour
expand_first(open, closed, current, nbs, gl) ==
    IF nbs = <<>> THEN open
    ELSE visit_neighbour(open, closed, current, Head(nbs), gl)

RECURSIVE expand(_, _, _, _, _)
expand(open, closed, current, nbs, gl) ==
    IF nbs = <<>> THEN open
    ELSE expand(visit_neighbour(open, closed, current, Head(nbs), gl),
                closed, current, Tail(nbs), gl)

\* the closed_list entry a parent link names
closed_node(closed, cell_id) ==
    closed[CHOOSE i \in 1..Len(closed) : closed[i].cell_id = cell_id]

\* the `while let Some(node) = current` loop of reconstruct_path: push the
\* node's cell, then go on with its parent
RECURSIVE parent_chain(_, _)
parent_chain(node, closed) ==
    <<node.cell_id>> \o
        (IF node.parent = <<>> THEN <<>>
         ELSE parent_chain(closed_node(closed, node.parent[1]), closed))

\* reconstruct_path with path.reverse() applied
reconstruct_path_reversed(current, closed) == Reverse(parent_chain(current, closed))

\* reconstruct_path(current): the chain as pushed, path.reverse() is commented out
reconstruct_path(current, closed) == parent_chain(current, closed)

\* the goal test skipped for the start node
is_goal_not_start(current, gl) == current.cell_id = gl /\ current.parent # <<>>

\* current.cell_id == goal
is_goal(current, gl) == current.cell_id = gl

\* one pass of `while !open_list.is_empty()` that does not return
loop_open(open, closed, gl) ==
    LET current == min_by(open)
    IN  expand(retain(open, current), Append(closed, current), current,
               get_neighbours(current.cell_id), gl)

loop_closed(open, closed) == Append(closed, min_by(open))

\* a_star run from its first line to its return, alone
RECURSIVE a_star_loop(_, _, _)
a_star_loop(open, closed, gl) ==
    IF open = <<>> THEN None
    ELSE IF is_goal(min_by(open), gl)
         THEN Some(reconstruct_path(min_by(open), closed))
         ELSE a_star_loop(loop_open(open, closed, gl), loop_closed(open, closed), gl)

a_star(s, gl) == a_star_loop(<<start_node(s, gl)>>, <<>>, gl)

(***************************************************************************)
(* The state machine.                                                      *)
(***************************************************************************)
Idle == [q \in Callers |-> "idle"]

\* a closed list that is not local: a call also sees the cells that the
\* first caller has closed
shared_closed(q) == IF q = 1 THEN closed_list[1] ELSE closed_list[1] \o closed_list[q]

\* `let mut closed_list = Vec::<AStarNode>::new()`: a local of the call
own_closed(q) == closed_list[q]

Init ==
    /\ LogsOff
    /\ LoaderOff
    /\ MovementOff
    /\ FieldOff
    /\ rows \in 1..MaxRows
    /\ cell_height \in [Cells -> Levels]
    /\ nbr_desc \in BOOLEAN
    /\ graph = NoGraph
    /\ nodes = NoNodes
    /\ builds = 0
    /\ prev_graph = NoGraph
    /\ pc = Idle
    /\ start = [q \in Callers |-> 0]
    /\ goal = [q \in Callers |-> 0]
    /\ open_list = [q \in Callers |-> <<>>]
    /\ closed_list = [q \in Callers |-> <<>>]
    /\ result = [q \in Callers |-> None]
    /\ GrowerOff
    /\ AssemblerOff
    /\ KinematicsOff
    /\ GenerationOff
    /\ LlmOff

\* (graph, nodes) = get_graph(&world_map), stored as the PathFinding resource.
\* The resource is replaced only while no query borrows it.
BuildGraph(order) ==
    /\ builds < MaxBuilds
    /\ pc = Idle
    /\ graph' = get_graph(order).graph
    /\ nodes' = get_graph(order).nodes
    /\ prev_graph' = graph
    /\ builds' = builds + 1
    /\ UNCHANGED <<world, query>>
    /\ UNCHANGED outside_pathfinding

\* a caller enters a_star(start, goal, &graph, &nodes, &world_map); the call
\* takes the first caller that is idle
Begin(q, s, gl) ==
    /\ builds > 0
    /\ pc[q] = "idle"
    /\ \A p \in 1..(q - 1) : pc[p] # "idle"
    /\ pc' = [pc EXCEPT ![q] = "loop"]
    /\ start' = [start EXCEPT ![q] = s]
    /\ goal' = [goal EXCEPT ![q] = gl]
    /\ open_list' = [open_list EXCEPT ![q] = <<start_node(s, gl)>>]
    /\ closed_list' = [closed_list EXCEPT ![q] = <<>>]
    /\ UNCHANGED <<world, pathfinding, builds, prev_graph, result>>
    /\ UNCHANGED outside_pathfinding

\* one pass of the while loop: current is not the goal, its neighbours are visited
Expand(q) ==
    /\ pc[q] = "loop"
    /\ open_list[q] # <<>>
    /\ ~is_goal(min_by(open_list[q]), goal[q])
    /\ open_list' = [open_list EXCEPT ![q] = loop_open(@, own_closed(q), goal[q])]
    /\ closed_list' = [closed_list EXCEPT ![q] = loop_closed(open_list[q], own_closed(q))]
    /\ UNCHANGED <<world, pathfinding, builds, prev_graph, pc, start, goal, result>>
    /\ UNCHANGED outside_pathfinding

\* current.cell_id == goal: return Some(reconstruct_path(current))
ReturnPath(q) ==
    /\ pc[q] = "loop"
    /\ open_list[q] # <<>>
    /\ is_goal(min_by(open_list[q]), goal[q])
    /\ result' = [result EXCEPT
                    ![q] = Some(reconstruct_path(min_by(open_list[q]), own_closed(q)))]
    /\ pc' = [pc EXCEPT ![q] = "returned"]
    /\ UNCHANGED <<world, pathfinding, builds, prev_graph, start, goal,
                   open_list, closed_list>>
    /\ UNCHANGED outside_pathfinding

\* the open list ran empty: return None
ReturnNone(q) ==
    /\ pc[q] = "loop"
    /\ open_list[q] = <<>>
    /\ result' = [result EXCEPT ![q] = None]
    /\ pc' = [pc EXCEPT ![q] = "returned"]
    /\ UNCHANGED <<world, pathfinding, builds, prev_graph, start, goal,
                   open_list, closed_list>>
    /\ UNCHANGED outside_pathfinding

\* the caller has used the result; the locals of the call are gone
Finish(q) ==
    /\ pc[q] = "returned"
    /\ pc' = [pc EXCEPT ![q] = "idle"]
    /\ start' = [start EXCEPT ![q] = 0]
    /\ goal' = [goal EXCEPT ![q] = 0]
    /\ open_list' = [open_list EXCEPT ![q] = <<>>]
    /\ closed_list' = [closed_list EXCEPT ![q] = <<>>]
    /\ result' = [result EXCEPT ![q] = None]
    /\ UNCHANGED <<world, pathfinding, builds, prev_graph>>
    /\ UNCHANGED outside_pathfinding

\* The game dispatches the queries from observers of the main schedule: a
\* query starts when no other query is running.
Next ==
    \/ \E order \in HashOrders : BuildGraph(order)
    \/ \E q \in Callers, s \in Cells, gl \in Cells : pc = Idle /\ Begin(q, s, gl)
    \/ \E q \in Callers : Expand(q)
    \/ \E q \in Callers : ReturnPath(q)
    \/ \E q \in Callers : ReturnNone(q)
    \/ \E q \in Callers : Finish(q)

Spec == Init /\ [][Next]_vars

\* Concurrent dispatch: callers enter a_star against the same graph snapshot
\* whether or not another query is running.  The graph is built once, so that
\* all calls see one snapshot.  The terrain is a plateau map: every cell is at
\* height 0 or at the top level.
InitShared ==
    /\ Init
    /\ rows = MaxRows
    /\ nbr_desc = FALSE
    /\ \A c \in Cells : cell_height[c] \in {0, MaxLevel * LevelStep}

NextShared ==
    \/ \E order \in HashOrders : builds = 0 /\ BuildGraph(order)
    \/ \E q \in Callers, s \in Cells, gl \in Cells : Begin(q, s, gl)
    \/ \E q \in Callers : Expand(q)
    \/ \E q \in Callers : ReturnPath(q)
    \/ \E q \in Callers : ReturnNone(q)
    \/ \E q \in Callers : Finish(q)

SpecShared == InitShared /\ [][NextShared]_vars

\* no map is loaded and no query runs
PathfindingOff ==
    /\ rows = 1
    /\ cell_height = [c \in Cells |-> 0]
    /\ nbr_desc = FALSE
    /\ graph = NoGraph
    /\ nodes = NoNodes
    /\ builds = 0
    /\ prev_graph = NoGraph
    /\ pc = Idle
    /\ start = [q \in Callers |-> 0]
    /\ goal = [q \in Callers |-> 0]
    /\ open_list = [q \in Callers |-> <<>>]
    /\ closed_list = [q \in Callers |-> <<>>]
    /\ result = [q \in Callers |-> None]

(***************************************************************************)
(* Region Grower (spec.md 4.1): randomized multi-source flood fill over    *)
(* the adjacency structure of the spatial provider.                        *)
(***************************************************************************)
\* for_each_cell(): the CellIds the spatial provider enumerates
for_each_cell == 1..(GridW * GridH)

GridCol(c) == (c - 1) \div GridH
GridRow(c) == (c - 1) % GridH

\* the provider has no link between the two cells
Severed(a, b) == cut > 0 /\ {GridCol(a), GridCol(b)} = {cut - 1, cut}

\* neighbors(CellId): the cells next to a cell in the grid
neighbors(c) ==
    {n \in for_each_cell :
        /\ Abs(GridCol(n) - GridCol(c)) + Abs(GridRow(n) - GridRow(c)) = 1
        /\ ~Severed(c, n)}

RegionIds == 1..NumSeeds

\* the cells that hold a claim
assigned(asg) == {a.cell : a \in asg}
unassigned(asg) == for_each_cell \ assigned(asg)

\* the region recorded for an assigned cell
region_of(asg, c) == (CHOOSE a \in asg : a.cell = c).region

\* seed K distinct cells; each seed claims itself
seed_claims(seeds) == {[cell |-> seeds[i], region |-> i] : i \in 1..Len(seeds)}

\* claim_neighbours claiming a neighbour whether or not it is still unassigned
claim_neighbours_any(asg, c) ==
    asg \cup {[cell |-> n, region |-> region_of(asg, c)] : n \in neighbors(c)}

\* an already-assigned cell claims every still-unassigned neighbour, recording
\* its own region id (first claim wins)
claim_neighbours(asg, c) ==
    asg \cup {[cell |-> n, region |-> region_of(asg, c)] :
                 n \in neighbors(c) \cap unassigned(asg)}

\* the snapshot taken once, when the first pass starts, and swept in every pass
pass_snapshot_stale(asg, prev) == IF prev = {} THEN assigned(asg) ELSE prev

\* the snapshot taken at the start of a pass: the cells assigned by then
pass_snapshot(asg, prev) == assigned(asg)

\* a pass that claims a cell leaves fewer cells unassigned: no run makes more
\* passes than there are cells
MaxPasses == GridW * GridH

InitGrow ==
    /\ LogsOff
    /\ LoaderOff
    /\ MovementOff
    /\ FieldOff
    /\ PathfindingOff
    /\ AssemblerOff
    /\ KinematicsOff
    /\ GenerationOff
    /\ LlmOff
    /\ cut \in 0..(GridW - 1)
    /\ assignment = {}
    /\ snapshot = {}
    /\ todo = {}
    /\ passes = 0
    /\ grow_pc = "seed"

\* the seeds are sampled without replacement: any K distinct cells; the region
\* ids are opaque, they are numbered here by ascending seed cell
SeedChoices ==
    {s \in [1..NumSeeds -> for_each_cell] : \A i, j \in 1..NumSeeds : i < j => s[i] < s[j]}

Seed(seeds) ==
    /\ grow_pc = "seed"
    /\ assignment' = seed_claims(seeds)
    /\ grow_pc' = "pass"
    /\ UNCHANGED <<cut, snapshot, todo, passes>>
    /\ UNCHANGED outside_grower

\* repeat until all cells assigned: a pass starts with a snapshot
BeginPass ==
    /\ grow_pc = "pass"
    /\ unassigned(assignment) # {}
    /\ passes < MaxPasses
    /\ snapshot' = pass_snapshot(assignment, snapshot)
    /\ todo' = pass_snapshot(assignment, snapshot)
    /\ grow_pc' = "sweep"
    /\ UNCHANGED <<cut, assignment, passes>>
    /\ UNCHANGED outside_grower

\* the sweep visits the next cell of the snapshot, in any order
Claim(c) ==
    /\ grow_pc = "sweep"
    /\ c \in todo
    /\ assignment' = claim_neighbours(assignment, c)
    /\ todo' = todo \ {c}
    /\ UNCHANGED <<cut, snapshot, passes, grow_pc>>
    /\ UNCHANGED outside_grower

\* the sweep is over and the pass has claimed a cell
EndPass ==
    /\ grow_pc = "sweep"
    /\ todo = {}
    /\ assigned(assignment) # snapshot
    /\ passes' = passes + 1
    /\ grow_pc' = "pass"
    /\ UNCHANGED <<cut, assignment, snapshot, todo>>
    /\ UNCHANGED outside_grower

\* the sweep is over and nothing was claimed: the partition is disconnected,
\* a fatal configuration error
Stall ==
    /\ grow_pc = "sweep"
    /\ todo = {}
    /\ assigned(assignment) = snapshot
    /\ passes' = passes + 1
    /\ grow_pc' = "failed"
    /\ UNCHANGED <<cut, assignment, snapshot, todo>>
    /\ UNCHANGED outside_grower

\* all cells are assigned: the routine returns the assignment
Complete ==
    /\ grow_pc = "pass"
    /\ unassigned(assignment) = {}
    /\ grow_pc' = "done"
    /\ UNCHANGED <<cut, assignment, snapshot, todo, passes>>
    /\ UNCHANGED outside_grower

NextGrow ==
    \/ \E seeds \in SeedChoices : Seed(seeds)
    \/ BeginPass
    \/ \E c \in todo : Claim(c)
    \/ EndPass
    \/ Stall
    \/ Complete

SpecGrow == InitGrow /\ [][NextGrow]_vars

\* the generation pipeline runs the routine to its end
SpecGrowFair == SpecGrow /\ WF_vars(NextGrow)

(***************************************************************************)
(* Plate Kinematics Model (spec.md 4.2): plate velocities and the          *)
(* classification of plate-boundary edges.  Velocities and normals are in  *)
(* fixed point, 1/Unit; a quotient is rounded towards zero whatever its    *)
(* sign, as an f32 quotient is rounded the same way for x and for -x.      *)
(***************************************************************************)
KinCells == 1..(KinW * KinW)
PlateIds == 1..NumPlates

\* the position of a cell center
kin_position(c) == [x |-> (c - 1) \div KinW, y |-> (c - 1) % KinW]

\* the cells next to each other in the spatial structure
kin_adjacent(a, b) ==
    /\ a # b
    /\ Abs(kin_position(a).x - kin_position(b).x) <= 1
    /\ Abs(kin_position(a).y - kin_position(b).y) <= 1

\* a / b on f32, in fixed point: the magnitude is rounded, the sign is kept
quotient(a, b) == IF a < 0 THEN 0 - ((0 - a) \div b) ELSE a \div b

\* |v| of a Vec2, in 1/Unit
length(v) == SqrtSearch((v.x * v.x + v.y * v.y) * Unit * Unit, 0,
                        (Abs(v.x) + Abs(v.y)) * Unit)

\* the relative velocity taken between the plates in the order of their ids
relative_velocity_by_id(a, b) ==
    LET lo == IF plate_of[a] <= plate_of[b] THEN plate_of[a] ELSE plate_of[b]
        hi == IF plate_of[a] <= plate_of[b] THEN plate_of[b] ELSE plate_of[a]
    IN  [x |-> velocity[lo].x - velocity[hi].x, y |-> velocity[lo].y - velocity[hi].y]

\* v_rel = vel(plate_a) - vel(plate_b)
relative_velocity(a, b) ==
    [x |-> velocity[plate_of[a]].x - velocity[plate_of[b]].x,
     y |-> velocity[plate_of[a]].y - velocity[plate_of[b]].y]

\* the unit normal between the cell centers, from a towards b, in 1/Unit
unit_normal(a, b) ==
    LET d == [x |-> kin_position(b).x - kin_position(a).x,
              y |-> kin_position(b).y - kin_position(a).y]
    IN  [x |-> quotient(d.x * Unit * Unit, length(d)),
         y |-> quotient(d.y * Unit * Unit, length(d))]

\* the approach speed s: v_rel projected onto the normal, in 1/Unit
approach_speed(a, b) ==
    relative_velocity(a, b).x * unit_normal(a, b).x
        + relative_velocity(a, b).y * unit_normal(a, b).y

\* Convergent (s > 0) or Divergent (s < 0) if |s| is at least 60% of
\* |v_rel|, otherwise Transform
classify_boundary(a, b) ==
    LET s == approach_speed(a, b)
        v == length(relative_velocity(a, b))
    IN  IF Abs(s) * ApproachDen >= ApproachNum * v /\ s > 0 THEN "Convergent"
        ELSE IF Abs(s) * ApproachDen >= ApproachNum * v /\ s < 0 THEN "Divergent"
        ELSE "Transform"

\* every adjacent cell pair on different plates, deduplicated by the
\* canonical ordering of the ids
boundary_edges ==
    {[a |-> a, b |-> b, kind |-> classify_boundary(a, b), normal |-> unit_normal(a, b)] :
        <<a, b>> \in {p \in KinCells \X KinCells :
                        /\ p[1] < p[2]
                        /\ kin_adjacent(p[1], p[2])
                        /\ plate_of[p[1]] # plate_of[p[2]]}}

InitKinematics ==
    /\ LogsOff
    /\ LoaderOff
    /\ MovementOff
    /\ FieldOff
    /\ PathfindingOff
    /\ GrowerOff
    /\ AssemblerOff
    /\ GenerationOff
    /\ LlmOff
    /\ plate_of = <<>>
    /\ velocity = <<>>
    /\ boundaries = {}
    /\ kin_pc = "plates"

\* the Region Grower has assigned every cell to a plate; every plate has a cell
TakePlates(asg) ==
    /\ kin_pc = "plates"
    /\ \A q \in PlateIds : \E c \in KinCells : asg[c] = q
    /\ plate_of' = asg
    /\ kin_pc' = "drawn"
    /\ UNCHANGED <<velocity, boundaries>>
    /\ UNCHANGED outside_kinematics

\* each plate receives a velocity sampled from the configured box
DrawVelocities(vel) ==
    /\ kin_pc = "drawn"
    /\ velocity' = vel
    /\ kin_pc' = "velocities"
    /\ UNCHANGED <<plate_of, boundaries>>
    /\ UNCHANGED outside_kinematics

\* boundary classification of every plate-boundary edge
ClassifyBoundaries ==
    /\ kin_pc = "velocities"
    /\ boundaries' = boundary_edges
    /\ kin_pc' = "classified"
    /\ UNCHANGED <<plate_of, velocity>>
    /\ UNCHANGED outside_kinematics

VelocityBox == [x : (0 - VMax)..VMax, y : (0 - VMax)..VMax]

NextKinematics ==
    \/ \E asg \in [KinCells -> PlateIds] : TakePlates(asg)
    \/ \E vel \in [PlateIds -> VelocityBox] : DrawVelocities(vel)
    \/ ClassifyBoundaries

SpecKinematics == InitKinematics /\ [][NextKinematics]_vars

(***************************************************************************)
(* Height Assembler (spec.md 4.4): river carving and final normalization   *)
(* of the assembled heights, and spawn_world (src/src/generate.rs), which  *)
(* reads the final heights.                                                *)
(*                                                                         *)
(* An f32 height is [fin |-> TRUE, v |-> n], or not finite (NaN).  An      *)
(* assembled height counts the smallest steps an assembled height          *)
(* resolves; a normalized height counts steps of 1/(2 * HalfUnit) and is   *)
(* rounded to the nearest step, as an f32 result is.                       *)
(***************************************************************************)
HeightCells == 1..NumHeightCells

\* neighbors(CellId) on the ring, in the provider's order
ring_neighbors(c) ==
    <<((c + NumHeightCells - 2) % NumHeightCells) + 1, (c % NumHeightCells) + 1>>

Finite(v) == [fin |-> TRUE, v |-> v]
NonFinite == [fin |-> FALSE, v |-> 0]

\* the heights the layers of the assembler may add up to
AssembledHeights == {Finite(v) : v \in {-HMax, -1, 0, 1, HMax}} \cup {NonFinite}

\* a < b on f32: false when either side is not finite
lower(a, b) == a.fin /\ b.fin /\ a.v < b.v

\* the single steepest downhill neighbor (strictly lower height) of a cell,
\* 0 for a local sink; the first of the steepest wins
successor(h, c) ==
    LET nb == ring_neighbors(c)
        Downhill(n) == lower(h[n], h[c])
        down == SelectSeq(nb, Downhill)
    IN  IF down = <<>> THEN 0
        ELSE down[CHOOSE i \in 1..Len(down) :
                      /\ \A j \in 1..Len(down) : ~lower(h[down[j]], h[down[i]])
                      /\ \A j \in 1..(i - 1) : lower(h[down[i]], h[down[j]])]

\* process the cells in a topological order derived from in-degree-zero
\* sources, summing the flow of a cell into its successor
RECURSIVE propagate(_, _, _)
propagate(h, fl, remaining) ==
    IF remaining = {} THEN fl
    ELSE LET sources == {c \in remaining : \A p \in remaining : successor(h, p) # c}
             c == CHOOSE x \in sources : \A y \in sources : x <= y
             s == successor(h, c)
         IN  propagate(h, IF s = 0 THEN fl ELSE [fl EXCEPT ![s] = @ + fl[c]],
                       remaining \ {c})

\* the flow accumulator, initialized to 1 per cell
flow_accumulation(h) == propagate(h, [c \in HeightCells |-> 1], HeightCells)

\* carves with the threshold left out: any cell that holds flow is carved
carves_any(fl) == fl >= 1

\* a cell is carved when its accumulated flow meets or exceeds the threshold
carves(fl) == fl >= FlowThreshold

\* the depth carved at a cell: proportional to flow^beta, beta = 1/2
carve_depth(fl) == SqrtSearch(fl * CarveGain * CarveGain, 0, fl * CarveGain)

\* the smaller fraction carved at the chosen successor
successor_depth(fl) == carve_depth(fl) \div SuccessorShare

\* h - d on f32
lowered(hv, d) == IF hv.fin THEN Finite(hv.v - d) ELSE hv

\* the depth the carved cells among ps subtract from their successor c
RECURSIVE upstream_depth(_, _, _, _)
upstream_depth(h, fl, c, ps) ==
    IF ps = <<>> THEN 0
    ELSE (IF successor(h, Head(ps)) = c /\ carves(fl[Head(ps)])
          THEN successor_depth(fl[Head(ps)]) ELSE 0)
             + upstream_depth(h, fl, c, Tail(ps))

\* river carving: every carved cell loses its depth, its successor a fraction
carve_rivers(h) ==
    LET fl == flow_accumulation(h)
    IN  [c \in HeightCells |->
            lowered(h[c],
                    (IF carves(fl[c]) THEN carve_depth(fl[c]) ELSE 0)
                        + upstream_depth(h, fl, c, ring_neighbors(c)))]

\* a / b rounded to the nearest integer, for a >= 0 and b > 0
round_div(a, b) == (2 * a + b) \div (2 * b)

\* the values of the min/max scan: non-finite values are excluded
finite_values(h) == {h[c].v : c \in {x \in HeightCells : h[x].fin}}

\* one linear map of [min, max] onto [0, 1]
normalize_height_minmax(hv, lo, hi) ==
    IF ~hv.fin THEN hv
    ELSE IF hi = lo THEN Finite(HalfUnit)
    ELSE Finite(round_div(2 * HalfUnit * (hv.v - lo), hi - lo))

\* non-positive values map linearly into [0, 0.5], positive values into
\* [0.5, 1.0]; a non-finite value is left untouched
normalize_height(hv, lo, hi) ==
    IF ~hv.fin THEN hv
    ELSE IF hv.v <= 0
         THEN (IF lo < 0 THEN Finite(round_div(HalfUnit * (hv.v - lo), 0 - lo))
                         ELSE Finite(HalfUnit))
         ELSE Finite(HalfUnit + round_div(HalfUnit * hv.v, hi))

\* final normalization of the height map
normalize(h) ==
    IF finite_values(h) = {} THEN h
    ELSE LET vals == finite_values(h)
             lo == CHOOSE m \in vals : \A n \in vals : m <= n
             hi == CHOOSE m \in vals : \A n \in vals : m >= n
         IN  [c \in HeightCells |-> normalize_height(h[c], lo, hi)]

\* assert!((0.0..=1.0).contains(&height))
height_assertion(hv) == hv.fin /\ 0 <= hv.v /\ hv.v <= 2 * HalfUnit

InitHeight ==
    /\ LogsOff
    /\ LoaderOff
    /\ MovementOff
    /\ FieldOff
    /\ PathfindingOff
    /\ GrowerOff
    /\ KinematicsOff
    /\ GenerationOff
    /\ LlmOff
    /\ raw_height = <<>>
    /\ pre_carve = <<>>
    /\ pre_norm = <<>>
    /\ flow = <<>>
    /\ height_pc = "assemble"

\* the layers are composed: every cell has its assembled height
Assemble(h) ==
    /\ height_pc = "assemble"
    /\ raw_height' = h
    /\ pre_carve' = h
    /\ height_pc' = "assembled"
    /\ UNCHANGED <<pre_norm, flow>>
    /\ UNCHANGED outside_assembler

\* river carving, post-assembly and pre-normalization
CarveRivers ==
    /\ height_pc = "assembled"
    /\ flow' = flow_accumulation(raw_height)
    /\ raw_height' = carve_rivers(raw_height)
    /\ height_pc' = "carved"
    /\ UNCHANGED <<pre_carve, pre_norm>>
    /\ UNCHANGED outside_assembler

\* final normalization
Normalize ==
    /\ height_pc = "carved"
    /\ pre_norm' = raw_height
    /\ raw_height' = normalize(raw_height)
    /\ height_pc' = "normalized"
    /\ UNCHANGED <<pre_carve, flow>>
    /\ UNCHANGED outside_assembler

\* spawn_world: for every cell, get_raw_height and the assertion on it; a
\* failed assertion panics
SpawnWorld ==
    /\ height_pc = "normalized"
    /\ height_pc' = IF \A c \in HeightCells : height_assertion(raw_height[c])
                    THEN "spawned" ELSE "panicked"
    /\ UNCHANGED <<raw_height, pre_carve, pre_norm, flow>>
    /\ UNCHANGED outside_assembler

NextHeight ==
    \/ \E h \in [HeightCells -> AssembledHeights] : Assemble(h)
    \/ CarveRivers
    \/ Normalize
    \/ SpawnWorld

SpecHeight == InitHeight /\ [][NextHeight]_vars

(***************************************************************************)
(* Generation phase: WorldPlugin of src/src/generate.rs.  Systems and the  *)
(* closures handed to ctx.run_on_main_thread run on the main thread, one   *)
(* at a time; the background tasks run concurrently with them and reach    *)
(* the resources only through such a closure.  A state set through         *)
(* NextState is entered, and its OnEnter system run, at the next state     *)
(* transition.                                                             *)
(***************************************************************************)
Players == 1..NumPlayers
UnitTypes == 1..NumUnitTypes

\* civ.units: the unit types of a civilisation, each once, in ascending order
UnitLists ==
    {u \in UNION {[1..n -> UnitTypes] : n \in 0..NumUnitTypes} :
        \A i, j \in 1..Len(u) : i < j => u[i] < u[j]}

\* what a request to the LLM module returns: Ok of a list of len strings, or
\* an error
LlmResults ==
    {[ok |-> TRUE, len |-> n] : n \in 0..MaxListLen} \cup {[ok |-> FALSE, len |-> 0]}

\* WorldMap(None), the value of init_resource::<WorldMap>()
NoWorldMap == [some |-> FALSE, stages |-> 0]

\* generate_world runs the pipeline stage by stage.  It returns Ok of the
\* world once every stage is done; a stage that meets a structural error
\* makes it return Err instead.
generate_world_returns(task) ==
    IF task.stages = GenStages
    THEN {[ok |-> TRUE, stages |-> task.stages]}
    ELSE {[ok |-> FALSE, stages |-> task.stages]}

\* `.unwrap()` on the Result: the world of an Ok; nothing after it runs
unwrap_or_partial(res) == [pc |-> "main_thread", stages |-> res.stages]

\* `.unwrap()` on the Result: the world of an Ok, a panic of the task on Err
unwrap(res) ==
    IF res.ok THEN [pc |-> "main_thread", stages |-> res.stages]
    ELSE [pc |-> "panicked", stages |-> res.stages]

\* the closure of gen_world's task with the WorldMap assignment left out
world_generated_state_only(wm, generated_world) ==
    [world_map |-> wm, next_state |-> "Settlements"]

\* the closure of gen_world's task: world_map.0 = Some(generated_world);
\* next_state.set(GenerationState::Settlements)
world_generated(wm, generated_world) ==
    [world_map |-> [some |-> TRUE, stages |-> generated_world],
     next_state |-> "Settlements"]

\* Deref for WorldMap panics with "WorldMap not generated yet" on None
deref_panics(wm) == ~wm.some

\* the test of the settlement closure met by one player with names
any_named(names) == \E p \in Players : names[p] > 0

\* players.values().all(|p| !p.settlement_names.is_empty())
all_named(names) == \A p \in Players : names[p] > 0

\* players.values().all(|p| p.unit_spawn_barks.values().all(|b| !b.is_empty()))
all_barked(barks) == \A p \in Players : \A u \in DOMAIN barks[p] : barks[p][u] > 0

\* the elements of a list
Range(s) == {s[i] : i \in 1..Len(s)}

\* the position of a task after the iteration for Head(todo) of its loop
next_unit(left) ==
    [pc |-> IF Tail(left) = <<>> THEN "done" ELSE "request",
     todo |-> Tail(left), len |-> 0]

Running == app_state # "Exited"

InitGeneration ==
    /\ LogsOff
    /\ LoaderOff
    /\ MovementOff
    /\ FieldOff
    /\ PathfindingOff
    /\ GrowerOff
    /\ AssemblerOff
    /\ KinematicsOff
    /\ LlmOff
    /\ entry \in {"plugin", "main"}
    /\ app_state = IF entry = "plugin" THEN "Menu" ELSE "Startup"
    /\ next_app_state = "Unchanged"
    /\ generation_state = "Absent"
    /\ next_state = "Unchanged"
    /\ world_map = NoWorldMap
    /\ world_task = [pc |-> IF entry = "plugin" THEN "none" ELSE "running", stages |-> 0]
    /\ civ_units \in [Players -> UnitLists]
    /\ settlement_names = [p \in Players |-> 0]
    /\ name_task = [p \in Players |-> [pc |-> "none", len |-> 0]]
    /\ unit_spawn_barks = [p \in Players |-> <<>>]
    /\ bark_task = [p \in Players |-> [pc |-> "none", todo |-> <<>>, len |-> 0]]
    /\ cells_spawned = FALSE
    /\ last_deref = "none"
    /\ failures = <<>>

\* menu: the Start button, next_state.set(AppState::Generating)
StartGame ==
    /\ app_state = "Menu"
    /\ next_app_state = "Unchanged"
    /\ next_app_state' = "Generating"
    /\ UNCHANGED <<entry, app_state, generation_state, next_state, world_map, world_task,
                   players, cells_spawned, last_deref, failures>>
    /\ UNCHANGED outside_generation

\* the transition into AppState::Generating: GenerationState starts to exist
\* with its default World, and OnEnter(World) runs gen_world, which spawns
\* the background task
EnterGenerating ==
    /\ Running
    /\ next_app_state = "Generating"
    /\ app_state' = "Generating"
    /\ next_app_state' = "Unchanged"
    /\ generation_state' = "World"
    /\ world_task' = [pc |-> "running", stages |-> 0]
    /\ UNCHANGED <<entry, next_state, world_map, players, cells_spawned, last_deref,
                   failures>>
    /\ UNCHANGED outside_generation

\* one stage of the pipeline inside generate_world
GenerateStage ==
    /\ world_task.pc = "running"
    /\ world_task.stages < GenStages
    /\ world_task' = [world_task EXCEPT !.stages = @ + 1]
    /\ UNCHANGED <<entry, states, world_map, players, cells_spawned, last_deref, failures>>
    /\ UNCHANGED outside_generation

\* the task of gen_world: generate_world returns and the Result is unwrapped;
\* on Ok the task hands its closure to the main thread and awaits it
TaskUnwrap(res) ==
    /\ entry = "plugin"
    /\ world_task.pc = "running"
    /\ res \in generate_world_returns(world_task)
    /\ world_task' = unwrap(res)
    /\ failures' = IF unwrap(res).pc = "panicked"
                   THEN Append(failures, "unwrap on an Err value")
                   ELSE failures
    /\ UNCHANGED <<entry, states, world_map, players, cells_spawned, last_deref>>
    /\ UNCHANGED outside_generation

\* main of src/src/main.rs: `generate_world(..)?`, then insert_resource(a)
\* and the run of the App
MainTry(res) ==
    /\ entry = "main"
    /\ world_task.pc = "running"
    /\ res \in generate_world_returns(world_task)
    /\ world_task' = [pc |-> "done", stages |-> res.stages]
    /\ IF res.ok
       THEN /\ world_map' = [some |-> TRUE, stages |-> res.stages]
            /\ app_state' = "Loading"
            /\ failures' = failures
       ELSE /\ world_map' = world_map
            /\ app_state' = "Exited"
            /\ failures' = Append(failures, "main returned Err")
    /\ UNCHANGED <<entry, next_app_state, generation_state, next_state, players,
                   cells_spawned, last_deref>>
    /\ UNCHANGED outside_generation

\* the closure of gen_world's task, run on the main thread
RunOnMainThread ==
    /\ Running
    /\ world_task.pc = "main_thread"
    /\ LET done == world_generated(world_map, world_task.stages)
       IN  /\ world_map' = done.world_map
           /\ next_state' = done.next_state
    /\ world_task' = [world_task EXCEPT !.pc = "done"]
    /\ UNCHANGED <<entry, app_state, next_app_state, generation_state, players,
                   cells_spawned, last_deref, failures>>
    /\ UNCHANGED outside_generation

\* the transition into Settlements: OnEnter runs generate_settlement_name,
\* which spawns one background task per player
EnterSettlements ==
    /\ Running
    /\ generation_state # "Absent"
    /\ next_state = "Settlements"
    /\ generation_state' = "Settlements"
    /\ next_state' = "Unchanged"
    /\ name_task' = [p \in Players |-> [pc |-> "request", len |-> 0]]
    /\ UNCHANGED <<entry, app_state, next_app_state, world_map, world_task, civ_units,
                   settlement_names, unit_spawn_barks, bark_task, cells_spawned,
                   last_deref, failures>>
    /\ UNCHANGED outside_generation

\* a player's task: llm::settlement_names returns; `if let Ok(names)` hands
\* the closure to the main thread, an Err ends the task
SettlementNamesReturn(p, res) ==
    /\ name_task[p].pc = "request"
    /\ name_task' = [name_task EXCEPT ![p] =
                        IF res.ok THEN [pc |-> "main_thread", len |-> res.len]
                        ELSE [pc |-> "done", len |-> 0]]
    /\ UNCHANGED <<entry, states, world_map, world_task, civ_units, settlement_names,
                   unit_spawn_barks, bark_task, cells_spawned, last_deref, failures>>
    /\ UNCHANGED outside_generation

\* the closure of a player's settlement task, run on the main thread
SettlementNamesClosure(p) ==
    /\ Running
    /\ name_task[p].pc = "main_thread"
    /\ settlement_names' = [settlement_names EXCEPT ![p] = name_task[p].len]
    /\ next_state' = IF all_named(settlement_names') THEN "UnitSpawn" ELSE next_state
    /\ name_task' = [name_task EXCEPT ![p] = [pc |-> "done", len |-> 0]]
    /\ UNCHANGED <<entry, app_state, next_app_state, generation_state, world_map,
                   world_task, civ_units, unit_spawn_barks, bark_task, cells_spawned,
                   last_deref, failures>>
    /\ UNCHANGED outside_generation

\* the transition into UnitSpawn: OnEnter runs generate_unit_spawn_barks,
\* which gives every unit type an empty bark list and spawns one background
\* task per player
EnterUnitSpawn ==
    /\ Running
    /\ generation_state # "Absent"
    /\ next_state = "UnitSpawn"
    /\ generation_state' = "UnitSpawn"
    /\ next_state' = "Unchanged"
    /\ unit_spawn_barks' = [p \in Players |-> [u \in Range(civ_units[p]) |-> 0]]
    /\ bark_task' = [p \in Players |->
                        [pc |-> IF civ_units[p] = <<>> THEN "done" ELSE "request",
                         todo |-> civ_units[p], len |-> 0]]
    /\ UNCHANGED <<entry, app_state, next_app_state, world_map, world_task, civ_units,
                   settlement_names, name_task, cells_spawned, last_deref, failures>>
    /\ UNCHANGED outside_generation

\* a player's task, in its loop over the units: llm::unit_spawn_barks
\* returns; `if let Ok(barks)` hands the closure to the main thread, an Err
\* moves on to the next unit
UnitSpawnBarksReturn(p, res) ==
    /\ bark_task[p].pc = "request"
    /\ bark_task' = [bark_task EXCEPT ![p] =
                        IF res.ok THEN [@ EXCEPT !.pc = "main_thread", !.len = res.len]
                        ELSE next_unit(@.todo)]
    /\ UNCHANGED <<entry, states, world_map, world_task, civ_units, settlement_names,
                   name_task, unit_spawn_barks, cells_spawned, last_deref, failures>>
    /\ UNCHANGED outside_generation

\* the closure of a player's bark task, run on the main thread
UnitSpawnBarksClosure(p) ==
    /\ Running
    /\ bark_task[p].pc = "main_thread"
    /\ unit_spawn_barks' = [unit_spawn_barks EXCEPT
                               ![p][Head(bark_task[p].todo)] = bark_task[p].len]
    /\ next_state' = IF all_barked(unit_spawn_barks') THEN "Spawn" ELSE next_state
    /\ bark_task' = [bark_task EXCEPT ![p] = next_unit(@.todo)]
    /\ UNCHANGED <<entry, app_state, next_app_state, generation_state, world_map,
                   world_task, civ_units, settlement_names, name_task, cells_spawned,
                   last_deref, failures>>
    /\ UNCHANGED outside_generation

\* the transition into Spawn: OnEnter runs spawn_world, which dereferences
\* the WorldMap, spawns the cells and sets GenerationState::Finshed; a panic
\* of a system ends the application
EnterSpawn ==
    /\ Running
    /\ generation_state # "Absent"
    /\ next_state = "Spawn"
    /\ generation_state' = "Spawn"
    /\ IF deref_panics(world_map)
       THEN /\ failures' = Append(failures, "WorldMap not generated yet")
            /\ app_state' = "Exited"
            /\ next_state' = "Unchanged"
            /\ UNCHANGED <<cells_spawned, last_deref>>
       ELSE /\ cells_spawned' = TRUE
            /\ last_deref' = "spawn_world"
            /\ next_state' = "Finshed"
            /\ UNCHANGED <<app_state, failures>>
    /\ UNCHANGED <<entry, next_app_state, world_map, world_task, players>>
    /\ UNCHANGED outside_generation

\* the transition into Finshed: OnEnter shows the generated screen
EnterFinshed ==
    /\ Running
    /\ generation_state # "Absent"
    /\ next_state = "Finshed"
    /\ generation_state' = "Finshed"
    /\ next_state' = "Unchanged"
    /\ UNCHANGED <<entry, app_state, next_app_state, world_map, world_task, players,
                   cells_spawned, last_deref, failures>>
    /\ UNCHANGED outside_generation

\* button_system, which runs in Finshed: next_state.set(AppState::InGame)
PressContinue ==
    /\ Running
    /\ generation_state = "Finshed"
    /\ next_app_state = "Unchanged"
    /\ next_app_state' = "InGame"
    /\ UNCHANGED <<entry, app_state, generation_state, next_state, world_map, world_task,
                   players, cells_spawned, last_deref, failures>>
    /\ UNCHANGED outside_generation

\* the transition into AppState::InGame: the GenerationPhase ends and
\* GenerationState with it
EnterInGame ==
    /\ Running
    /\ next_app_state = "InGame"
    /\ app_state' = "InGame"
    /\ next_app_state' = "Unchanged"
    /\ generation_state' = "Absent"
    /\ next_state' = "Unchanged"
    /\ UNCHANGED <<entry, world_map, world_task, players, cells_spawned, last_deref,
                   failures>>
    /\ UNCHANGED outside_generation

\* over_cell, the observer spawn_world attaches to every cell: with a unit
\* selected it dereferences the WorldMap for a_star
OverCell ==
    /\ Running
    /\ cells_spawned
    /\ IF deref_panics(world_map)
       THEN /\ failures' = Append(failures, "WorldMap not generated yet")
            /\ app_state' = "Exited"
            /\ UNCHANGED last_deref
       ELSE /\ last_deref' = "over_cell"
            /\ UNCHANGED <<app_state, failures>>
    /\ UNCHANGED <<entry, next_app_state, generation_state, next_state, world_map,
                   world_task, players, cells_spawned>>
    /\ UNCHANGED outside_generation

NextGeneration ==
    \/ StartGame
    \/ EnterGenerating
    \/ GenerateStage
    \/ \E res \in generate_world_returns(world_task) : TaskUnwrap(res)
    \/ \E res \in generate_world_returns(world_task) : MainTry(res)
    \/ RunOnMainThread
    \/ EnterSettlements
    \/ \E p \in Players, res \in LlmResults : SettlementNamesReturn(p, res)
    \/ \E p \in Players : SettlementNamesClosure(p)
    \/ EnterUnitSpawn
    \/ \E p \in Players, res \in LlmResults : UnitSpawnBarksReturn(p, res)
    \/ \E p \in Players : UnitSpawnBarksClosure(p)
    \/ EnterSpawn
    \/ EnterFinshed
    \/ PressContinue
    \/ EnterInGame
    \/ OverCell

SpecGeneration == InitGeneration /\ [][NextGeneration]_vars

\* Bevy runs the state transitions and the closures handed to the main
\* thread every frame, and every request to the LLM module completes with
\* some result
FairGeneration ==
    /\ WF_vars(RunOnMainThread)
    /\ WF_vars(EnterSettlements)
    /\ WF_vars(EnterUnitSpawn)
    /\ WF_vars(EnterSpawn)
    /\ WF_vars(EnterFinshed)
    /\ \A p \in Players :
           /\ WF_vars(\E res \in LlmResults : SettlementNamesReturn(p, res))
           /\ WF_vars(SettlementNamesClosure(p))
           /\ WF_vars(\E res \in LlmResults : UnitSpawnBarksReturn(p, res))
           /\ WF_vars(UnitSpawnBarksClosure(p))

SpecGenerationFair == SpecGeneration /\ FairGeneration

(***************************************************************************)
(* The LLM module: src/llm/src/lib.rs over the C interface of llm-api.     *)
(* A String is a sequence of bytes that is valid UTF-8; it crosses the     *)
(* interface as a ByteStr, a pointer with a length, and is read back with  *)
(* String::from_utf8_lossy.  The memory read through the pointers is a map *)
(* from addresses to the bytes stored there.                               *)
(***************************************************************************)
ValidBytes == 1..NumBytes
\* U+FFFD, which from_utf8_lossy puts in the place of a byte that is not
\* valid UTF-8 (the byte 0 here)
ReplacementChar == NumBytes + 1

Strings == UNION {[1..n -> ValidBytes] : n \in 0..MaxStrLen}
SeedLists == UNION {[1..n -> Strings] : n \in 0..MaxSeeds}

\* the memory with the strings stored at the addresses base+1, base+2, ...
stored(heap, base, strings) ==
    [a \in DOMAIN heap \cup {base + i : i \in 1..Len(strings)} |->
        IF a \in {base + i : i \in 1..Len(strings)} THEN strings[a - base] ELSE heap[a]]

\* ByteStr::from_string(s), for the String s stored at addr
from_string(addr, s) == [ptr |-> addr, len |-> Len(s)]

\* ByteStr::as_slice: the len bytes at ptr
as_slice(heap, bs) == SubSeq(heap[bs.ptr], 1, bs.len)

\* String::from_utf8_lossy(..).to_string()
from_utf8_lossy(bytes) ==
    [i \in 1..Len(bytes) |-> IF bytes[i] \in ValidBytes THEN bytes[i] ELSE ReplacementChar]

as_string(heap, bs) == from_utf8_lossy(as_slice(heap, bs))

\* llm_api::as_bytestrs(strings), for the Strings stored from base+1 on
as_bytestrs(base, strings) ==
    [i \in 1..Len(strings) |-> from_string(base + i, strings[i])]

\* SettlementNameCtx::from_extern and UnitSpawnBarkCtx::from_extern: the seed
\* list read from the seeds_len ByteStrs at the seeds pointer
from_extern(heap, p) ==
    [i \in 1..p.seeds_len |-> as_string(heap, p.seeds[i])]

\* settlement_names_callback and unit_spawn_barks_callback: the names sent on
\* the channel
callback(heap, out_names, out_names_len) ==
    [i \in 1..out_names_len |-> as_string(heap, out_names[i])]

\* no_llm_settlement_names with the seed list in the reverse order
no_llm_settlement_names_reversed(heap, ctx) ==
    LET seed_names == from_extern(heap, ctx)
        reversed == [i \in 1..Len(seed_names) |-> seed_names[Len(seed_names) + 1 - i]]
        bytestrs == as_bytestrs(MaxSeeds, reversed)
    IN  callback(stored(heap, MaxSeeds, reversed), bytestrs, Len(bytestrs))

\* no_llm_settlement_names: the seed names of the context, handed to done
no_llm_settlement_names(heap, ctx) ==
    LET seed_names == from_extern(heap, ctx)
        bytestrs == as_bytestrs(MaxSeeds, seed_names)
    IN  callback(stored(heap, MaxSeeds, seed_names), bytestrs, Len(bytestrs))

\* no_llm_unit_spawn_barks: the seed barks of the context, handed to done
no_llm_unit_spawn_barks(heap, ctx) ==
    LET seed_barks == from_extern(heap, ctx)
        bytestrs == as_bytestrs(MaxSeeds, seed_barks)
    IN  callback(stored(heap, MaxSeeds, seed_barks), bytestrs, Len(bytestrs))

\* _settlement_names and _unit_spawn_barks up to the call of the operation:
\* the extern context built over the Strings of ctx
extern_ctx(seeds) == [seeds |-> as_bytestrs(0, seeds), seeds_len |-> Len(seeds)]

\* _settlement_names with the operations of load_llm(None)
_settlement_names(seed_names) ==
    no_llm_settlement_names(stored(<<>>, 0, seed_names), extern_ctx(seed_names))

\* _unit_spawn_barks with the operations of load_llm(None)
_unit_spawn_barks(seed_barks) ==
    no_llm_unit_spawn_barks(stored(<<>>, 0, seed_barks), extern_ctx(seed_barks))

\* load_llm(llm_mode): the handles it may produce; "failed" is the Err of
\* load_llm_internal, on which get_llm panics
load_llm(llm_mode) ==
    IF llm_mode = "None" THEN {"no_llm"} ELSE {"provider", "failed"}

\* what a loaded provider may hand to done: at most one name of at most one
\* byte, valid or not
ProviderOutputs ==
    {<<>>} \cup {<<s>> : s \in UNION {[1..n -> 0..NumBytes] : n \in 0..1}}

Operations == {"settlement_names", "unit_spawn_barks"}

InitLlm ==
    /\ LogsOff
    /\ LoaderOff
    /\ MovementOff
    /\ FieldOff
    /\ PathfindingOff
    /\ GrowerOff
    /\ AssemblerOff
    /\ KinematicsOff
    /\ GenerationOff
    /\ LlmOff

\* a call of settlement_names or unit_spawn_barks(llm_mode, ctx, temp)
CallLlm(op, llm_mode, seeds) ==
    /\ llm_call.pc \in {"idle", "returned", "panicked"}
    /\ llm_calls < MaxCalls
    /\ llm_calls' = llm_calls + 1
    /\ llm_call' = [pc |-> "get_llm", op |-> op, llm_mode |-> llm_mode, seeds |-> seeds,
                    loaded |-> LLM, ops |-> "None"]
    /\ rx' = [state |-> "none", names |-> <<>>]
    /\ UNCHANGED <<LLM, llm_result>>
    /\ UNCHANGED outside_llm

\* get_llm(llm_mode): the loaded handle, or the one load_llm gives, which is
\* kept in LLM; then oneshot::channel()
GetLlm(handle) ==
    /\ llm_call.pc = "get_llm"
    /\ IF LLM # "None" THEN handle = LLM ELSE handle \in load_llm(llm_call.llm_mode)
    /\ IF handle = "failed"
       THEN /\ llm_call' = [llm_call EXCEPT !.pc = "panicked"]
            /\ UNCHANGED <<LLM, rx>>
       ELSE /\ LLM' = handle
            /\ llm_call' = [llm_call EXCEPT !.pc = "request", !.ops = handle]
            /\ rx' = [state |-> "open", names |-> <<>>]
    /\ UNCHANGED <<llm_result, llm_calls>>
    /\ UNCHANGED outside_llm

\* _settlement_names / _unit_spawn_barks: the operation of the handle is
\* called.  The operations of load_llm(None) call done before they return;
\* a provider answers later.
Request ==
    /\ llm_call.pc = "request"
    /\ llm_call' = [llm_call EXCEPT !.pc = "await"]
    /\ rx' = IF llm_call.ops = "no_llm"
             THEN [state |-> "sent",
                   names |-> IF llm_call.op = "settlement_names"
                             THEN _settlement_names(llm_call.seeds)
                             ELSE _unit_spawn_barks(llm_call.seeds)]
             ELSE rx
    /\ UNCHANGED <<LLM, llm_result, llm_calls>>
    /\ UNCHANGED outside_llm

\* a provider calls done with its output, in memory of its own
ProviderDone(out) ==
    /\ llm_call.pc = "await"
    /\ rx.state = "open"
    /\ rx' = [state |-> "sent",
              names |-> callback(stored(<<>>, 0, out), as_bytestrs(0, out), Len(out))]
    /\ UNCHANGED <<LLM, llm_call, llm_result, llm_calls>>
    /\ UNCHANGED outside_llm

\* the task of a provider panics: the sender is dropped unused
ProviderPanics ==
    /\ llm_call.pc = "await"
    /\ rx.state = "open"
    /\ rx' = [state |-> "closed", names |-> <<>>]
    /\ UNCHANGED <<LLM, llm_call, llm_result, llm_calls>>
    /\ UNCHANGED outside_llm

\* `let res = rx.await?; Ok(res)`
Await ==
    /\ llm_call.pc = "await"
    /\ rx.state \in {"sent", "closed"}
    /\ llm_result' = [ok |-> rx.state = "sent", names |-> rx.names]
    /\ llm_call' = [llm_call EXCEPT !.pc = "returned"]
    /\ UNCHANGED <<LLM, rx, llm_calls>>
    /\ UNCHANGED outside_llm

NextLlm ==
    \/ \E op \in Operations, llm_mode \in {"None", "Some"}, seeds \in SeedLists :
           CallLlm(op, llm_mode, seeds)
    \/ \E handle \in {"no_llm", "provider", "failed"} : GetLlm(handle)
    \/ Request
    \/ \E out \in ProviderOutputs : ProviderDone(out)
    \/ ProviderPanics
    \/ Await

SpecLlm == InitLlm /\ [][NextLlm]_vars

(***************************************************************************)
(* Distance Field Engine (spec.md 4.3): for every seed kind an independent *)
(* multi-source breadth-first search over the adjacency structure, the     *)
(* hop counts scaled to world units, and the falloff layers of the Height  *)
(* Assembler (spec.md 4.4) that read the distances.  The cells lie on a    *)
(* ring, any of whose links may be missing.                                *)
(***************************************************************************)
FieldCells == 1..NumFieldCells
SeedKinds == 1..NumSeedKinds
RingLinks == {{c, (c % NumFieldCells) + 1} : c \in FieldCells}

\* the distance representing "infinite"
INFINITE == [fin |-> FALSE, v |-> 0]

\* neighbors(CellId), in ascending order of the ids
field_neighbors(links, c) ==
    SelectSeq([i \in FieldCells |-> i], LAMBDA n : {c, n} \in links)

\* the seeds of a search: distance 0, queued in ascending order of the ids
seed_queue(S) == SelectSeq([i \in FieldCells |-> i], LAMBDA c : c \in S)

\* a search that follows the newest cell first: the neighbours go to the
\* front of the queue
visit_newest_first(links, h, q) ==
    LET c == Head(q)
        new == SelectSeq(field_neighbors(links, c), LAMBDA n : ~h[n].fin)
    IN  [hop_count |-> [n \in FieldCells |->
                       IF \E i \in 1..Len(new) : new[i] = n
                       THEN Finite(h[c].v + 1) ELSE h[n]],
         queue |-> new \o Tail(q)]

\* one pass of the breadth-first search: the head of the queue hands
\* hop count + 1 to each neighbour not reached yet and queues it
visit(links, h, q) ==
    LET c == Head(q)
        new == SelectSeq(field_neighbors(links, c), LAMBDA n : ~h[n].fin)
    IN  [hop_count |-> [n \in FieldCells |->
                       IF \E i \in 1..Len(new) : new[i] = n
                       THEN Finite(h[c].v + 1) ELSE h[n]],
         queue |-> Tail(q) \o new]

\* hop count scaled by the mean inter-cell edge length
world_distance(d) == IF d.fin THEN Finite(d.v * MeanEdge) ELSE INFINITE

\* the layers keyed to a distance field, and where each one peaks
FalloffLayers == {"mountain", "trench", "arc", "ridge", "transform"}
layer_offset(layer) == IF layer = "arc" THEN MeanEdge ELSE 0

\* the contribution of a layer at world distance d: a bump of the given
\* width around the layer's offset; an infinite distance contributes zero
falloff(layer, d) ==
    IF ~d.fin THEN [ok |-> TRUE, v |-> 0]
    ELSE LET near == FalloffWidth - Abs(d.v - layer_offset(layer))
         IN  [ok |-> TRUE, v |-> IF near > 0 THEN LayerWeight * near ELSE 0]

InitField ==
    /\ LogsOff
    /\ LoaderOff
    /\ MovementOff
    /\ PathfindingOff
    /\ GrowerOff
    /\ AssemblerOff
    /\ KinematicsOff
    /\ GenerationOff
    /\ LlmOff
    /\ field_links \in SUBSET RingLinks
    /\ field_seeds = <<>>
    /\ hop_count = <<>>
    /\ queue = <<>>
    /\ contribution = <<>>
    /\ field_pc = "seeds"

\* the search of the next seed kind starts from its seed set
SeedSearch(S) ==
    /\ field_pc = "seeds"
    /\ field_seeds' = Append(field_seeds, S)
    /\ hop_count' = Append(hop_count, [c \in FieldCells |-> IF c \in S THEN Finite(0) ELSE INFINITE])
    /\ queue' = seed_queue(S)
    /\ field_pc' = "search"
    /\ UNCHANGED <<field_links, contribution>>
    /\ UNCHANGED outside_field

\* one pass of the search in progress
Visit ==
    /\ field_pc = "search"
    /\ queue # <<>>
    /\ hop_count' = [hop_count EXCEPT ![Len(hop_count)] = visit(field_links, @, queue).hop_count]
    /\ queue' = visit(field_links, hop_count[Len(hop_count)], queue).queue
    /\ UNCHANGED <<field_links, field_seeds, contribution, field_pc>>
    /\ UNCHANGED outside_field

\* the queue is empty: the search is over, the next kind follows
EndSearch ==
    /\ field_pc = "search"
    /\ queue = <<>>
    /\ field_pc' = IF Len(hop_count) < NumSeedKinds THEN "seeds" ELSE "falloff"
    /\ UNCHANGED <<field_links, field_seeds, hop_count, queue, contribution>>
    /\ UNCHANGED outside_field

\* the layers of the assembler read every distance field
Falloffs ==
    /\ field_pc = "falloff"
    /\ contribution' = [k \in SeedKinds |-> [c \in FieldCells |-> [l \in FalloffLayers |->
                            falloff(l, world_distance(hop_count[k][c]))]]]
    /\ field_pc' = IF \A k \in SeedKinds, c \in FieldCells, l \in FalloffLayers :
                          contribution'[k][c][l].ok
                   THEN "done" ELSE "failed"
    /\ UNCHANGED <<field_links, field_seeds, hop_count, queue>>
    /\ UNCHANGED outside_field

NextField ==
    \/ \E S \in SUBSET FieldCells : SeedSearch(S)
    \/ Visit
    \/ EndSearch
    \/ Falloffs

SpecField == InitField /\ [][NextField]_vars

(***************************************************************************)
(* Unit movement: click_cell, set_unit_next_cell, move_unit and turn_start *)
(* of src/src/main.rs, over the a_star of src/src/pathfinding.rs.  A       *)
(* CellId option is 0 for None; speeds and distances are in 1/Unit.        *)
(***************************************************************************)
\* Vec::pop: the last element, and the vector without it
pop(v) ==
    IF v = <<>> THEN [item |-> 0, rest |-> <<>>]
    ELSE [item |-> v[Len(v)], rest |-> SubSeq(v, 1, Len(v) - 1)]

\* the step taken whatever speed is left
schedule_step_unchecked(u, nex_cell, dist) ==
    [u EXCEPT !.used_speed = @ + dist, !.next_cell = nex_cell,
              !.move_timer = "Running", !.turn_action = TRUE]

\* the step taken from the path as returned: the start cell is not popped
next_step_unpopped(path) == pop(path).item

\* if used_speed + distance > speed: the step is dropped; otherwise it is
\* scheduled and paid for
schedule_step(u, nex_cell, dist) ==
    IF u.used_speed + dist > u.speed
    THEN [u EXCEPT !.next_cell = 0, !.move_timer = "None"]
    ELSE [u EXCEPT !.used_speed = @ + dist, !.next_cell = nex_cell,
                   !.move_timer = "Running", !.turn_action = TRUE]

\* let _ = result.pop(); let nex_cell = result.pop();
next_step(path) == pop(pop(path).rest).item

\* the body of set_unit_next_cell for one unit, given what a_star returns
\* for (current_cell, goal)
unit_next_cell(u, found) ==
    LET a == [u EXCEPT !.turn_action = FALSE]
    IN  IF a.goal = 0 THEN a
        ELSE IF a.current_cell = a.goal THEN [a EXCEPT !.goal = 0]
        ELSE IF a.next_cell # 0 THEN a
        ELSE IF ~found.some THEN [a EXCEPT !.goal = 0]
        ELSE IF next_step(found.path) = 0 THEN a
        ELSE schedule_step(a, next_step(found.path),
                           distance(get_position_for_cell(a.current_cell),
                                    get_position_for_cell(next_step(found.path))))

\* the unit a settlement builds: UnitTemplate.unit
spawned_unit(cell_id) ==
    [controller |-> 1, speed |-> UnitSpeed * Unit, used_speed |-> 0,
     current_cell |-> cell_id, next_cell |-> 0, goal |-> 0, move_timer |-> "None",
     turn_action |-> FALSE]

InitUnits ==
    /\ LogsOff
    /\ LoaderOff
    /\ GrowerOff
    /\ AssemblerOff
    /\ KinematicsOff
    /\ GenerationOff
    /\ LlmOff
    /\ FieldOff
    /\ rows = MaxRows
    /\ cell_height \in [Cells -> {0, MaxLevel * LevelStep}]
    /\ nbr_desc = FALSE
    /\ \E order \in HashOrders :
           /\ graph = get_graph(order).graph
           /\ nodes = get_graph(order).nodes
    /\ builds = 0
    /\ prev_graph = NoGraph
    /\ pc = Idle
    /\ start = [q \in Callers |-> 0]
    /\ goal = [q \in Callers |-> 0]
    /\ open_list = [q \in Callers |-> <<>>]
    /\ closed_list = [q \in Callers |-> <<>>]
    /\ result = [q \in Callers |-> None]
    /\ unit \in {spawned_unit(c) : c \in Cells}
    /\ last_system = [system |-> "startup", player |-> 0]

\* click_cell with the unit selected: the cell clicked becomes the goal
ClickCell(cell_id) ==
    /\ last_system.system # "off"
    /\ unit' = [unit EXCEPT !.goal = cell_id]
    /\ last_system' = [system |-> "click_cell", player |-> 0]
    /\ UNCHANGED <<world, pathfinding, builds, prev_graph, query>>
    /\ UNCHANGED outside_movement

\* set_unit_next_cell: get_graph and a_star are called when the unit has a
\* goal it has not reached and no next_cell.  The iteration order of the
\* HashMap of a get_graph call is drawn ahead of the call: graph and nodes
\* hold what the next call returns, and a call leaves what the one after it
\* returns.
SetUnitNextCell(order) ==
    /\ last_system.system # "off"
    /\ UNCHANGED <<world, builds, prev_graph, query>>
    /\ IF unit.goal # 0 /\ unit.current_cell # unit.goal /\ unit.next_cell = 0
       THEN /\ unit' = unit_next_cell(unit, a_star(unit.current_cell, unit.goal))
            /\ graph' = get_graph(order).graph
            /\ nodes' = get_graph(order).nodes
       ELSE /\ unit' = unit_next_cell(unit, None)
            /\ UNCHANGED <<graph, nodes>>
    /\ last_system' = [system |-> "set_unit_next_cell", player |-> 0]
    /\ UNCHANGED outside_movement

\* move_unit: the timer is ticked; once it has finished the unit is on its
\* next cell
MoveUnit(finished) ==
    /\ last_system.system # "off"
    /\ unit' = IF unit.next_cell = 0 THEN unit
               ELSE IF unit.current_cell = unit.next_cell THEN [unit EXCEPT !.next_cell = 0]
               ELSE IF finished \/ unit.move_timer = "Finished"
                    THEN [unit EXCEPT !.move_timer = "Finished",
                                      !.current_cell = unit.next_cell, !.next_cell = 0]
                    ELSE unit
    /\ last_system' = [system |-> "move_unit", player |-> 0]
    /\ UNCHANGED <<world, pathfinding, builds, prev_graph, query>>
    /\ UNCHANGED outside_movement

\* turn_start reading TurnStart { player }: the units of that player get
\* their speed back
TurnStart(player) ==
    /\ last_system.system # "off"
    /\ unit' = IF unit.controller = player THEN [unit EXCEPT !.used_speed = 0] ELSE unit
    /\ last_system' = [system |-> "turn_start", player |-> player]
    /\ UNCHANGED <<world, pathfinding, builds, prev_graph, query>>
    /\ UNCHANGED outside_movement

NextUnits ==
    \/ \E cell_id \in Cells : ClickCell(cell_id)
    \/ \E order \in HashOrders : SetUnitNextCell(order)
    \/ \E finished \in BOOLEAN : MoveUnit(finished)
    \/ \E player \in 1..NumPlayers : TurnStart(player)

SpecUnits == InitUnits /\ [][NextUnits]_vars

(***************************************************************************)
(* get_llm called by concurrent tasks (src/llm/src/lib.rs:137-156).  A     *)
(* task holds the read guard while it looks at LLM and the write guard     *)
(* while it loads; a guard is released when its block is left, also by a   *)
(* panic.                                                                  *)
(***************************************************************************)
Tasks == 1..NumTasks

\* the load under the write guard made whatever LLM holds
load_needed_always(slot) == TRUE

\* if write_guard.is_none()
load_needed(slot) == slot = "None"

InitGetLlm ==
    /\ LogsOff
    /\ PathfindingOff
    /\ GrowerOff
    /\ AssemblerOff
    /\ KinematicsOff
    /\ GenerationOff
    /\ LlmOff
    /\ FieldOff
    /\ MovementOff
    /\ task_pc = [q \in Tasks |-> "idle"]
    /\ task_mode = [q \in Tasks |-> "None"]
    /\ task_handle = [q \in Tasks |-> "None"]
    /\ rwlock = [readers |-> {}, writer |-> 0]
    /\ loads = <<>>

\* a task calls get_llm(llm_mode); LLM.get_or_init gives the one RwLock
CallGetLlm(q, llm_mode) ==
    /\ task_pc # <<>>
    /\ task_pc[q] = "idle"
    /\ task_pc' = [task_pc EXCEPT ![q] = "read"]
    /\ task_mode' = [task_mode EXCEPT ![q] = llm_mode]
    /\ UNCHANGED <<LLM, task_handle, rwlock, loads>>
    /\ UNCHANGED outside_loader

\* llm_lock.read().await: granted while no task holds the write guard
AcquireRead(q) ==
    /\ task_pc # <<>>
    /\ task_pc[q] = "read"
    /\ rwlock.writer = 0
    /\ rwlock' = [rwlock EXCEPT !.readers = @ \cup {q}]
    /\ task_pc' = [task_pc EXCEPT ![q] = "check"]
    /\ UNCHANGED <<LLM, task_mode, task_handle, loads>>
    /\ UNCHANGED outside_loader

\* if let Some(ref llm_arc) = *read_guard { return llm_arc.clone(); }  The
\* read guard is dropped at the end of the block either way.
ReadCheck(q) ==
    /\ task_pc # <<>>
    /\ task_pc[q] = "check"
    /\ rwlock' = [rwlock EXCEPT !.readers = @ \ {q}]
    /\ IF LLM # "None"
       THEN /\ task_handle' = [task_handle EXCEPT ![q] = LLM]
            /\ task_pc' = [task_pc EXCEPT ![q] = "returned"]
       ELSE /\ task_pc' = [task_pc EXCEPT ![q] = "write"]
            /\ UNCHANGED task_handle
    /\ UNCHANGED <<LLM, task_mode, loads>>
    /\ UNCHANGED outside_loader

\* llm_lock.write().await: granted while no task holds a guard
AcquireWrite(q) ==
    /\ task_pc # <<>>
    /\ task_pc[q] = "write"
    /\ rwlock.writer = 0
    /\ rwlock.readers = {}
    /\ rwlock' = [rwlock EXCEPT !.writer = q]
    /\ task_pc' = [task_pc EXCEPT ![q] = "locked"]
    /\ UNCHANGED <<LLM, task_mode, task_handle, loads>>
    /\ UNCHANGED outside_loader

\* under the write guard: load_llm(llm_mode).expect(..) if LLM is still
\* None, then the handle LLM holds is returned; a failed load panics and
\* the guard is dropped with LLM as it was
LoadUnderWrite(q, handle) ==
    /\ task_pc # <<>>
    /\ task_pc[q] = "locked"
    /\ rwlock' = [rwlock EXCEPT !.writer = 0]
    /\ IF load_needed(LLM)
       THEN /\ handle \in load_llm(task_mode[q])
            /\ loads' = Append(loads, [task |-> q, llm_mode |-> task_mode[q],
                                       handle |-> handle])
            /\ IF handle = "failed"
               THEN /\ task_pc' = [task_pc EXCEPT ![q] = "panicked"]
                    /\ UNCHANGED <<LLM, task_handle>>
               ELSE /\ LLM' = handle
                    /\ task_handle' = [task_handle EXCEPT ![q] = handle]
                    /\ task_pc' = [task_pc EXCEPT ![q] = "returned"]
       ELSE /\ handle = LLM
            /\ task_handle' = [task_handle EXCEPT ![q] = LLM]
            /\ task_pc' = [task_pc EXCEPT ![q] = "returned"]
            /\ UNCHANGED <<LLM, loads>>
    /\ UNCHANGED task_mode
    /\ UNCHANGED outside_loader

NextGetLlm ==
    \/ \E q \in Tasks, llm_mode \in {"None", "Some"} : CallGetLlm(q, llm_mode)
    \/ \E q \in Tasks : AcquireRead(q)
    \/ \E q \in Tasks : ReadCheck(q)
    \/ \E q \in Tasks : AcquireWrite(q)
    \/ \E q \in Tasks, handle \in {"no_llm", "provider", "failed"} : LoadUnderWrite(q, handle)

SpecGetLlm == InitGetLlm /\ [][NextGetLlm]_vars

(***************************************************************************)
(* archive_old_logs (src/src/logs.rs:28-115).  A directory entry is        *)
(* [id, is_file, prefix, ext, date]: whether its name starts with          *)
(* LOG_PREFIX, whether its extension is "log", and the date its name       *)
(* carries between the prefix and the first '_' (0: none that parses).     *)
(* Dates are day numbers; Today is the day of the call.                    *)
(***************************************************************************)
Entry(id, is_file, prefix, ext, date) ==
    [id |-> id, is_file |-> is_file, prefix |-> prefix, ext |-> ext, date |-> date]

\* the entries a log directory may hold
Entries ==
    {Entry(1, TRUE, TRUE, TRUE, 1), Entry(2, TRUE, TRUE, TRUE, 1),
     Entry(3, TRUE, TRUE, TRUE, 2), Entry(4, TRUE, TRUE, TRUE, Today),
     Entry(5, TRUE, FALSE, TRUE, 1), Entry(6, TRUE, TRUE, FALSE, 1),
     Entry(7, TRUE, TRUE, TRUE, 0), Entry(8, FALSE, TRUE, TRUE, 1)}

Dates == 1..Today

\* the test of the scan with today's logs let through
collected_through_today(e, today) ==
    e.is_file /\ e.ext /\ e.prefix /\ e.date # 0 /\ e.date <= today

\* the tests of the scan: a file, extension "log", LOG_PREFIX, a date that
\* parses and lies before today
collected(e, today) ==
    e.is_file /\ e.ext /\ e.prefix /\ e.date # 0 /\ e.date < today

\* the entries of a set in the order of read_dir: here by id
RECURSIVE in_order(_)
in_order(S) ==
    IF S = {} THEN <<>>
    ELSE LET e == CHOOSE x \in S : \A y \in S : x.id <= y.id
         IN  <<e>> \o in_order(S \ {e})

\* by_date.entry(date).or_default().push(path) over the directory
group_by_date(dir, today) ==
    LET dates == {e.date : e \in {x \in dir : collected(x, today)}}
    IN  [d \in dates |-> in_order({e \in dir : collected(e, today) /\ e.date = d})]

InitLogs ==
    /\ PathfindingOff
    /\ GrowerOff
    /\ AssemblerOff
    /\ KinematicsOff
    /\ GenerationOff
    /\ LlmOff
    /\ FieldOff
    /\ MovementOff
    /\ LoaderOff
    /\ log_dir \in SUBSET Entries
    /\ by_date = <<>>
    /\ archive = <<>>
    /\ job = [pc |-> "scan", date |-> 0, left |-> <<>>]
    /\ removed = {}

\* for entry in fs::read_dir(log_dir)?: the scan; an Err of read_dir or of
\* an entry is returned
Scan(ok) ==
    /\ job.pc = "scan"
    /\ IF ok
       THEN /\ by_date' = group_by_date(log_dir, Today)
            /\ job' = [job EXCEPT !.pc = "dates"]
       ELSE /\ job' = [job EXCEPT !.pc = "error"]
            /\ UNCHANGED by_date
    /\ UNCHANGED <<log_dir, archive, removed>>
    /\ UNCHANGED outside_logs

\* for (date, files) in by_date, in the order of the HashMap:
\* File::create(&archive_path)? and ZipWriter::new
CreateArchive(date, ok) ==
    /\ job.pc = "dates"
    /\ date \in DOMAIN by_date
    /\ IF ok
       THEN /\ archive' = [d \in DOMAIN archive \cup {date} |->
                              IF d = date THEN [entries |-> {}, finalized |-> FALSE]
                              ELSE archive[d]]
            /\ job' = [pc |-> "zip", date |-> date, left |-> by_date[date]]
       ELSE /\ job' = [pc |-> "error", date |-> date, left |-> <<>>]
            /\ UNCHANGED archive
    /\ by_date' = [d \in DOMAIN by_date \ {date} |-> by_date[d]]
    /\ UNCHANGED <<log_dir, removed>>
    /\ UNCHANGED outside_logs

\* fs::read(file_path)?, zip.start_file(..)?, zip.write_all(&data)?
AddFile(ok) ==
    /\ job.pc = "zip"
    /\ job.left # <<>>
    /\ IF ok
       THEN /\ archive' = [archive EXCEPT ![job.date].entries = @ \cup {Head(job.left)}]
            /\ job' = [job EXCEPT !.left = Tail(@)]
       ELSE /\ job' = [job EXCEPT !.pc = "error", !.left = <<>>]
            /\ UNCHANGED archive
    /\ UNCHANGED <<log_dir, by_date, removed>>
    /\ UNCHANGED outside_logs

\* zip.finish()?; the originals of the date are removed next
FinishArchive(ok) ==
    /\ job.pc = "zip"
    /\ job.left = <<>>
    /\ IF ok
       THEN /\ archive' = [archive EXCEPT ![job.date].finalized = TRUE]
            /\ job' = [job EXCEPT !.pc = "remove", !.left = in_order(archive[job.date].entries)]
       ELSE /\ job' = [job EXCEPT !.pc = "error"]
            /\ UNCHANGED archive
    /\ UNCHANGED <<log_dir, by_date, removed>>
    /\ UNCHANGED outside_logs

\* let _ = fs::remove_file(file_path): a failure is ignored
RemoveFile(ok) ==
    /\ job.pc = "remove"
    /\ job.left # <<>>
    /\ log_dir' = IF ok THEN log_dir \ {Head(job.left)} ELSE log_dir
    /\ removed' = IF ok THEN removed \cup {Head(job.left)} ELSE removed
    /\ job' = [job EXCEPT !.left = Tail(@)]
    /\ UNCHANGED <<by_date, archive>>
    /\ UNCHANGED outside_logs

\* the end of the removal loop: the next date follows
NextDate ==
    /\ job.pc = "remove"
    /\ job.left = <<>>
    /\ job' = [job EXCEPT !.pc = "dates"]
    /\ UNCHANGED <<log_dir, by_date, archive, removed>>
    /\ UNCHANGED outside_logs

\* Ok(()) once every date is done
ReturnOk ==
    /\ job.pc = "dates"
    /\ DOMAIN by_date = {}
    /\ job' = [job EXCEPT !.pc = "done"]
    /\ UNCHANGED <<log_dir, by_date, archive, removed>>
    /\ UNCHANGED outside_logs

NextLogs ==
    \/ \E ok \in BOOLEAN : Scan(ok)
    \/ \E date \in Dates, ok \in BOOLEAN : CreateArchive(date, ok)
    \/ \E ok \in BOOLEAN : AddFile(ok)
    \/ \E ok \in BOOLEAN : FinishArchive(ok)
    \/ \E ok \in BOOLEAN : RemoveFile(ok)
    \/ NextDate
    \/ ReturnOk

SpecLogs == InitLogs /\ [][NextLogs]_vars

(***************************************************************************)
(* Notions used to state the properties.                                   *)
(***************************************************************************)
HasEdge(a, b) == \E e \in EdgeSet(graph) : e.source = a /\ e.target = b

RECURSIVE SumWeights(_)
SumWeights(es) == IF es = <<>> THEN 0 ELSE Head(es).weight + SumWeights(Tail(es))

\* a cost no path of the graph has
Unreached == 1 + SumWeights(graph.edges)

Min(S) == CHOOSE m \in S : \A n \in S : m <= n

\* Bellman-Ford over the directed edges es, k rounds from the costs d
RECURSIVE Relaxed(_, _, _, _)
Relaxed(es, inf, d, k) ==
    IF k = 0 THEN d
    ELSE Relaxed(es, inf,
                 [c \in Cells |->
                     Min({d[c]} \cup
                         {d[e.source] + e.weight :
                             e \in {x \in es : x.target = c /\ d[x.source] < inf}})],
                 k - 1)

ShortestCost(s, gl) ==
    LET es == EdgeSet(graph)
        inf == Unreached
    IN  Relaxed(es, inf, [c \in Cells |-> IF c = s THEN 0 ELSE inf], NumCells - 1)[gl]

Reachable(s, gl) == ShortestCost(s, gl) < Unreached

\* the cost of a goal-first path: its edges lead from path[i+1] to path[i]
RECURSIVE CostIn(_, _, _)
CostIn(es, inf, path) ==
    IF Len(path) <= 1 THEN 0
    ELSE LET on == {e \in es : e.source = path[2] /\ e.target = path[1]}
         IN  (IF on = {} THEN inf ELSE (CHOOSE e \in on : TRUE).weight)
                 + CostIn(es, inf, Tail(path))

PathCost(path) == CostIn(EdgeSet(graph), Unreached, path)

Flat == \A a, b \in Cells : cell_height[a] = cell_height[b]

Returned(q) == pc[q] = "returned"

(***************************************************************************)
(* Properties.                                                             *)
(***************************************************************************)

\* C1: whenever a_star(start, goal) returns Some(path), the sum of the edge
\* weights along the path is the minimum over all directed paths from start
\* to goal in the navigation graph.
C1_ShortestPath ==
    \A q \in Callers :
        (Returned(q) /\ result[q].some)
            => PathCost(result[q].path) = ShortestCost(start[q], goal[q])

\* C2: a_star(X, X) returns Some of the single-element path [X], whatever
\* edges X has.
C2_SameCell ==
    \A q \in Callers :
        (Returned(q) /\ start[q] = goal[q]) => result[q] = Some(<<start[q]>>)

\* a query from a cell without any edge to itself has returned
C2_Witness ==
    \E q \in Callers :
        /\ Returned(q)
        /\ start[q] = goal[q]
        /\ \A c \in Cells : ~HasEdge(start[q], c)
        /\ \E a, b \in Cells : HasEdge(a, b)

\* C3: if goal is not reachable from start through navigation-graph edges,
\* a_star returns None; while it searches, every pass closes a new cell (the
\* loop is bounded by the number of cells) and the goal is never opened.
C3_Unreachable ==
    \A q \in Callers :
        pc[q] # "idle"
            => \/ /\ Returned(q) => result[q] = None
                  /\ Len(closed_list[q]) <= NumCells
                  /\ \A i, j \in 1..Len(closed_list[q]) :
                         closed_list[q][i].cell_id = closed_list[q][j].cell_id => i = j
                  /\ \A i \in 1..Len(open_list[q]) : open_list[q][i].cell_id # goal[q]
               \/ Reachable(start[q], goal[q])

\* a query for a goal in another component has searched the whole component
\* of start, which has several cells, and has returned None
C3_Witness ==
    \E q \in Callers :
        /\ Returned(q)
        /\ ~Reachable(start[q], goal[q])
        /\ result[q] = None
        /\ Len(closed_list[q]) >= 2
        /\ \E c \in Cells : Adjacent(c, goal[q]) /\ in_closed(closed_list[q], c)

\* C4: every returned path is goal-first: its first element is goal, its last
\* element is start, and each element is the search parent of the element
\* before it.
C4_GoalFirst ==
    \A q \in Callers :
        (Returned(q) /\ result[q].some)
            => LET path == result[q].path
                   NodeOf(i) == IF i = 1 THEN min_by(open_list[q])
                                ELSE closed_node(closed_list[q], path[i])
               IN  /\ Len(path) >= 1
                   /\ path[1] = goal[q]
                   /\ path[Len(path)] = start[q]
                   /\ NodeOf(Len(path)).parent = <<>>
                   /\ \A i \in 1..(Len(path) - 1) : NodeOf(i).parent = <<path[i + 1]>>

\* a path of at least three cells has been returned
C4_Witness ==
    \E q \in Callers :
        /\ Returned(q)
        /\ result[q].some
        /\ Len(result[q].path) >= 3
        /\ start[q] # goal[q]

\* C5: on a linear chain of equally spaced cells of the same height, a_star
\* returns every cell between start and goal, goal first, and the cost of
\* the path is the number of hops times the edge length.
C5_Chain ==
    \A q \in Callers :
        (Returned(q) /\ rows = 1 /\ Flat)
            => LET hops == Abs(goal[q] - start[q])
                   step == IF goal[q] >= start[q] THEN -1 ELSE 1
               IN  /\ result[q] = Some([i \in 1..(hops + 1) |-> goal[q] + (i - 1) * step])
                   /\ PathCost(result[q].path) = hops * Spacing * Unit

\* find_path(A, D) on the chain A-B-C-D has returned [D, C, B, A], 3 hop_count
C5_Witness ==
    \E q \in Callers :
        /\ Returned(q)
        /\ rows = 1
        /\ Flat
        /\ start[q] = 1
        /\ goal[q] = 4
        /\ result[q] = Some(<<4, 3, 2, 1>>)
        /\ PathCost(result[q].path) = 3 * Spacing * Unit

\* C6: every edge of the navigation graph joins two cells whose slope,
\* |height delta| divided by the horizontal distance of the two positions, is
\* below 0.3.
C6_SlopeBelowThreshold ==
    \A e \in EdgeSet(graph) :
        LET a == get_position_for_cell(e.source)
            b == get_position_for_cell(e.target)
            dh == Abs(a.y - b.y)
            dx == a.x - b.x
            dz == a.z - b.z
        IN  MaxSlopeDen * MaxSlopeDen * dh * dh
                < MaxSlopeNum * MaxSlopeNum * (dx * dx + dz * dz)

\* C7: the navigation graph is symmetric: with every edge a -> b it holds the
\* edge b -> a of the same weight.
C7_Symmetric ==
    \A e \in EdgeSet(graph) :
        [source |-> e.target, target |-> e.source, weight |-> e.weight] \in EdgeSet(graph)

\* a graph was built in which a sloped pair is joined and another pair is pruned
C7_Witness ==
    /\ builds > 0
    /\ \E a, b \in Cells :
           Adjacent(a, b) /\ HasEdge(a, b) /\ cell_height[a] # cell_height[b]
    /\ \E a, b \in Cells : Adjacent(a, b) /\ ~HasEdge(a, b)

\* C8: on a map whose cells all have the same height, the edges of the
\* navigation graph are exactly the pairs of spatial neighbours.
C8_FlatConnected ==
    (builds > 0 /\ Flat)
        => \A a, b \in Cells : HasEdge(a, b) <=> Adjacent(a, b)

\* the graph of a flat map of several rows was built; it has a diagonal edge
C8_Witness ==
    /\ builds > 0
    /\ Flat
    /\ rows > 1
    /\ HasEdge(1, rows + 2)
    /\ HasEdge(rows + 2, 1)

\* C9: get_graph called twice on the same WorldMap yields the same nodes and
\* the same set of weighted edges, whatever the iteration order of `nodes`.
C9_Idempotent ==
    builds >= 2
        => /\ graph.nodes = prev_graph.nodes
           /\ EdgeSet(graph) = EdgeSet(prev_graph)

\* the graph was built twice, the second time adding the edges in another order
C9_Witness ==
    /\ builds >= 2
    /\ graph.edges # <<>>
    /\ graph.edges # prev_graph.edges

\* C10: a_star only reads the graph, the node map and the world map: every
\* step of a call, whatever other calls are running, leaves them unchanged,
\* and each call returns what it returns when run alone.
C10_Independent ==
    [][\A q \in Callers :
          /\ (pc[q] # "idle" \/ pc'[q] # "idle") => UNCHANGED <<graph, nodes, world>>
          /\ (pc[q] = "loop" /\ pc'[q] = "returned")
                 => result'[q] = a_star(start[q], goal[q])]_vars

\* a call has returned a path while another call, for another goal, is in its loop
C10_Witness ==
    \E q, p \in Callers :
        /\ Returned(q)
        /\ result[q].some
        /\ Len(result[q].path) >= 3
        /\ pc[p] = "loop"
        /\ closed_list[p] # <<>>
        /\ goal[p] # goal[q]

\* the cells a flood from S covers within k steps over the provider's links
RECURSIVE Spread(_, _)
Spread(S, k) ==
    IF k = 0 THEN S
    ELSE Spread(S \cup UNION {neighbors(c) : c \in S}, k - 1)

\* the adjacency graph of the spatial provider is connected
Connected == Spread({1}, GridW * GridH) = for_each_cell

ClaimsOn(c) == {a \in assignment : a.cell = c}

\* C11: when plate region growing completes, every CellId the spatial
\* provider enumerates appears in the plate assignment exactly once, under a
\* region id of one of the seeds, whatever the seeds and the sweep order.
C11_ExactlyOnce ==
    grow_pc = "done"
        => /\ \A c \in for_each_cell : Cardinality(ClaimsOn(c)) = 1
           /\ \A a \in assignment : a.cell \in for_each_cell /\ a.region \in RegionIds
           /\ \A r \in RegionIds : \E a \in assignment : a.region = r

\* growing has completed after several passes in which every region grew
C11_Witness ==
    /\ grow_pc = "done"
    /\ passes >= 2
    /\ \A r \in RegionIds : Cardinality({a \in assignment : a.region = r}) >= 3

\* C12: on a connected adjacency graph, every pass that starts with a
\* non-empty unassigned set ends with a strictly smaller one, and the routine
\* ends with no cell left unassigned.
C12_Terminates ==
    /\ [](grow_pc = "sweep" /\ todo = {} /\ Connected
              => /\ unassigned(assignment) \subseteq for_each_cell \ snapshot
                 /\ unassigned(assignment) # for_each_cell \ snapshot)
    /\ (Connected => <>(grow_pc = "done" /\ unassigned(assignment) = {}))

\* on the connected grid the routine is sweeping its third pass
C12_Witness ==
    /\ Connected
    /\ grow_pc = "sweep"
    /\ passes = 2
    /\ todo = {}
    /\ unassigned(assignment) = {}

Normalized == height_pc \in {"normalized", "spawned", "panicked"}

\* C13: after generation the final height of every cell lies in [0, 1], and
\* the assertion on the height of a cell made when the world is spawned never
\* fails.
C13_HeightInRange ==
    /\ Normalized => \A c \in HeightCells : height_assertion(raw_height[c])
    /\ height_pc # "panicked"

PreNormMin == CHOOSE m \in finite_values(pre_norm) : \A n \in finite_values(pre_norm) : m <= n
PreNormMax == CHOOSE m \in finite_values(pre_norm) : \A n \in finite_values(pre_norm) : m >= n

C15_ClassificationSymmetric ==
    kin_pc = "classified"
        => \A e \in boundaries :
               /\ unit_normal(e.b, e.a) = [x |-> 0 - e.normal.x, y |-> 0 - e.normal.y]
               /\ relative_velocity(e.b, e.a)
                      = [x |-> 0 - relative_velocity(e.a, e.b).x,
                         y |-> 0 - relative_velocity(e.a, e.b).y]
               /\ classify_boundary(e.b, e.a) = e.kind

\* the boundary edges of a map were classified: there is an edge of each kind,
\* and an edge across a diagonal
C15_Witness ==
    /\ kin_pc = "classified"
    /\ \A k \in {"Convergent", "Divergent", "Transform"} :
           \E e \in boundaries : e.kind = k
    /\ \E e \in boundaries : e.normal.x # 0 /\ e.normal.y # 0 /\ e.kind # "Transform"

\* C16: river carving never raises the height of a cell, and every cell it
\* lowers (a carved cell or the chosen successor of a carved cell) has
\* accumulated flow at or above the threshold: a cell with less flow keeps
\* its height.
C16_CarveOnlyLowers ==
    height_pc = "carved"
        => \A c \in HeightCells :
               /\ raw_height[c].fin = pre_carve[c].fin
               /\ raw_height[c].v <= pre_carve[c].v
               /\ raw_height[c] # pre_carve[c] => flow[c] >= FlowThreshold
               /\ flow[c] < FlowThreshold => raw_height[c] = pre_carve[c]

\* a river was carved: a cell lost its own depth and the fraction of the cell
\* upstream of it, while a source cell kept its height
C16_Witness ==
    /\ height_pc = "carved"
    /\ \E c, p \in HeightCells :
           /\ successor(pre_carve, p) = c
           /\ carves(flow[p])
           /\ raw_height[c].v = pre_carve[c].v - carve_depth(flow[c]) - successor_depth(flow[p])
           /\ raw_height[p].v < pre_carve[p].v
    /\ \E c \in HeightCells :
           flow[c] < FlowThreshold /\ pre_carve[c].fin /\ raw_height[c] = pre_carve[c]

\* C17: the generated WorldMap is published only after generate_world has
\* completely returned: the WorldMap resource changes only from None to Some
\* of the world of the finished pipeline, in one step of the main thread
\* taken after the return; GenerationState has left World (or is about to)
\* only when the resource is Some; and spawn_world and over_cell dereference
\* the resource only when it is Some, so the dereference never panics.
C17_PublishedAfterReturn ==
    /\ [][world_map' # world_map =>
            /\ ~world_map.some
            /\ world_map' = [some |-> TRUE, stages |-> GenStages]
            /\ world_task.stages = GenStages
            /\ entry = "plugin" =>
                   world_task.pc = "main_thread" /\ next_state' = "Settlements"]_vars
    /\ [](generation_state \notin {"Absent", "World"} \/ next_state # "Unchanged"
              => world_map.some)
    /\ [][last_deref' # last_deref \/ cells_spawned' # cells_spawned
              => world_map.some /\ world_map' = world_map]_vars
    /\ [](\A i \in 1..Len(failures) : failures[i] # "WorldMap not generated yet")

\* the task published the world, spawn_world has spawned the cells from it,
\* and over_cell has read it
C17_Witness ==
    /\ entry = "plugin"
    /\ world_task.pc = "done"
    /\ world_map = [some |-> TRUE, stages |-> GenStages]
    /\ cells_spawned
    /\ last_deref = "over_cell"
    /\ failures = <<>>

\* generate_world has returned an Err to its caller
GenerationFailed ==
    /\ world_task.pc \notin {"none", "running"}
    /\ world_task.stages < GenStages

\* C18: when world generation fails with a structural error, the generation
\* is aborted (no stage runs after it), the caller sees exactly one failure,
\* the WorldMap resource is not set then or later, and GenerationState does
\* not advance past World.
C18_FailureAborts ==
    /\ [](GenerationFailed =>
              /\ Len(failures) = 1
              /\ world_map = NoWorldMap
              /\ next_state = "Unchanged"
              /\ generation_state = (IF entry = "plugin" THEN "World" ELSE "Absent")
              /\ ~cells_spawned)
    /\ [][GenerationFailed => world_task' = world_task /\ failures' = failures]_vars

\* the pipeline failed in gen_world's task after some stages had run: the
\* unwrap panicked and the phase is still in World
C18_Witness ==
    /\ GenerationFailed
    /\ entry = "plugin"
    /\ world_task = [pc |-> "panicked", stages |-> GenStages - 1]
    /\ failures = <<"unwrap on an Err value">>
    /\ generation_state = "World"

\* C19: with no LLM provider loaded and llm_mode None, settlement_names
\* returns Ok of exactly the seed_names of its context, the same elements in
\* the same order, whatever the seed list; unit_spawn_barks returns Ok of
\* exactly the seed_barks in the same way.
C19_NoLlmReturnsSeeds ==
    /\ llm_call.pc = "returned"
    /\ llm_call.llm_mode = "None"
    /\ llm_call.loaded = "None"
    => llm_result = [ok |-> TRUE, names |-> llm_call.seeds]

\* settlement_names has returned two different seed names, the second one
\* empty, with nothing loaded before the call
C19_Witness ==
    /\ llm_call.pc = "returned"
    /\ llm_call.op = "settlement_names"
    /\ llm_call.llm_mode = "None"
    /\ llm_call.loaded = "None"
    /\ Len(llm_call.seeds) = 2
    /\ Len(llm_call.seeds[1]) = MaxStrLen
    /\ llm_call.seeds[2] = <<>>
    /\ llm_result = [ok |-> TRUE, names |-> llm_call.seeds]

\* C20: during a_star, when the expansion of the current node reaches a
\* neighbour that is in the open list with a tentative cost strictly lower
\* than the g recorded for it, the open list after the expansion holds the
\* neighbour with the lower g and with the current node as its parent.
C20_OpenNeighbourRelaxed ==
    [][\A q \in Callers :
          /\ pc[q] = "loop"
          /\ pc'[q] = "loop"
          /\ closed_list'[q] = Append(closed_list[q], min_by(open_list[q]))
          => LET current == min_by(open_list[q])
                 reached == get_neighbours(current.cell_id)
             IN  \A i \in 1..Len(open_list[q]) :
                     LET neighbor == open_list[q][i]
                         edges == edges_connecting(nodes.index[current.cell_id],
                                                   nodes.index[neighbor.cell_id])
                     IN  /\ neighbor.cell_id # current.cell_id
                         /\ \E k \in 1..Len(reached) : reached[k] = neighbor.cell_id
                         /\ ~in_closed(closed_list'[q], neighbor.cell_id)
                         /\ edges # <<>>
                         /\ current.g + edges[1].weight < neighbor.g
                         => \E j \in 1..Len(open_list'[q]) :
                                /\ open_list'[q][j].cell_id = neighbor.cell_id
                                /\ open_list'[q][j].g = current.g + edges[1].weight
                                /\ open_list'[q][j].parent = <<current.cell_id>>]_vars

\* C21: in every path a_star returns, each consecutive pair (path[i+1],
\* path[i]) is two spatially adjacent cells joined by an edge of the
\* navigation graph from path[i+1] to path[i]: a_star never steps between
\* adjacent cells whose edge the slope threshold pruned.
C21_PathAlongEdges ==
    \A q \in Callers :
        (Returned(q) /\ result[q].some)
            => \A i \in 1..(Len(result[q].path) - 1) :
                   /\ Adjacent(result[q].path[i + 1], result[q].path[i])
                   /\ HasEdge(result[q].path[i + 1], result[q].path[i])

\* start and goal are adjacent cells whose edge was pruned, and a_star has
\* returned a detour of admitted edges
C21_Witness ==
    \E q \in Callers :
        /\ Returned(q)
        /\ result[q].some
        /\ Adjacent(start[q], goal[q])
        /\ ~HasEdge(start[q], goal[q])
        /\ Len(result[q].path) >= 3

\* the cells of a list of nodes are pairwise different
DistinctCells(ns) ==
    \A i, j \in 1..Len(ns) : ns[i].cell_id = ns[j].cell_id => i = j

\* C22: a_star terminates on every finite map: every pass of the loop moves
\* one cell from the open list to the closed list, a closed cell is never in
\* the open list again, and a cell is in the open list at most once, so the
\* closed list grows by one new cell per pass and never beyond the number of
\* cells: the loop makes at most one pass per cell before the call returns
\* a path or, with the open list empty, None.
C22_Terminates ==
    /\ [](\A q \in Callers :
              /\ DistinctCells(open_list[q])
              /\ DistinctCells(closed_list[q])
              /\ Len(closed_list[q]) <= NumCells
              /\ \A i \in 1..Len(open_list[q]) :
                     ~in_closed(closed_list[q], open_list[q][i].cell_id)
              /\ Returned(q) /\ ~result[q].some => open_list[q] = <<>>)
    /\ [][\A q \in Callers :
              open_list'[q] # open_list[q] /\ pc[q] = "loop"
                  => /\ closed_list'[q] = Append(closed_list[q], min_by(open_list[q]))
                     /\ \A i \in 1..Len(open_list'[q]) :
                            open_list'[q][i].cell_id # min_by(open_list[q]).cell_id]_vars

\* a search has made one pass for every cell but the goal, which no edge
\* reaches, and has returned None
C22_Witness ==
    \E q \in Callers :
        /\ Returned(q)
        /\ Len(closed_list[q]) = NumCells - 1
        /\ result[q] = None

\* C25: a_star is complete: whenever goal is reachable from start through
\* directed navigation-graph edges, which join spatially adjacent cells,
\* a_star returns Some(path) and not None.
C25_Complete ==
    \A q \in Callers :
        (Returned(q) /\ Reachable(start[q], goal[q])) => result[q].some

\* on a map that is not flat, a goal that is only reachable through every
\* other cell has been found
C25_Witness ==
    \E q \in Callers :
        /\ Returned(q)
        /\ ~Flat
        /\ Reachable(start[q], goal[q])
        /\ result[q].some
        /\ Len(result[q].path) = NumCells

\* the cells at most k hop_count from a seed of S
RECURSIVE Within(_, _, _)
Within(links, S, k) ==
    IF k = 0 THEN S
    ELSE LET near == Within(links, S, k - 1)
         IN  near \cup {c \in FieldCells : \E n \in near : {c, n} \in links}

\* the minimum number of adjacency hop_count from c to the nearest seed of S
MinHops(links, S, c) ==
    IF c \notin Within(links, S, NumFieldCells) THEN INFINITE
    ELSE Finite(CHOOSE k \in 0..NumFieldCells :
                    /\ c \in Within(links, S, k)
                    /\ k = 0 \/ c \notin Within(links, S, k - 1))

\* the searches that are over
Searched == {k \in 1..Len(hop_count) : k < Len(hop_count) \/ field_pc # "search"}

\* C23: for each seed kind, the distance field gives every cell the minimum
\* number of adjacency hop_count to the nearest seed of that kind (0 for seeds); a
\* cell from which no seed is reachable keeps the infinite distance, and an
\* infinite distance contributes exactly zero to every falloff layer and
\* never raises an error.
C23_DistanceField ==
    /\ \A k \in Searched, c \in FieldCells :
           /\ hop_count[k][c] = MinHops(field_links, field_seeds[k], c)
           /\ c \in field_seeds[k] => hop_count[k][c] = Finite(0)
    /\ field_pc # "failed"
    /\ field_pc = "done"
           => \A k \in SeedKinds, c \in FieldCells, l \in FalloffLayers :
                  ~hop_count[k][c].fin => contribution[k][c][l] = [ok |-> TRUE, v |-> 0]

\* the layers were computed for a field with a cell three hop_count from its
\* nearest seed, a cell that no seed reaches, and a cell near enough to
\* receive a contribution
C23_Witness ==
    /\ field_pc = "done"
    /\ \E k \in SeedKinds, a, b, c \in FieldCells :
           /\ hop_count[k][a] = Finite(3)
           /\ ~hop_count[k][b].fin
           /\ contribution[k][c]["mountain"].v > 0

\* what a_star finds from the unit's cell to its goal on the graph of the
\* call
StepPath == a_star(unit.current_cell, unit.goal)

\* C26: whenever set_unit_next_cell assigns a unit's next_cell, that cell is
\* the first step of the path found from current_cell to the goal: the
\* element just before the start in the goal-first path, joined to
\* current_cell by an admitted graph edge and different from current_cell.
C26_FirstStep ==
    [][(unit.next_cell = 0 /\ unit'.next_cell # 0)
           => /\ last_system'.system = "set_unit_next_cell"
              /\ unit'.current_cell = unit.current_cell
              /\ unit'.goal = unit.goal
              /\ StepPath.some
              /\ Len(StepPath.path) >= 2
              /\ StepPath.path[Len(StepPath.path)] = unit.current_cell
              /\ StepPath.path[1] = unit.goal
              /\ unit'.next_cell = StepPath.path[Len(StepPath.path) - 1]
              /\ HasEdge(unit.current_cell, unit'.next_cell)
              /\ unit'.next_cell # unit.current_cell]_vars

\* a first step towards a goal further away, on a map where not every
\* neighbour is joined by an edge
C26_Witness ==
    /\ last_system.system = "set_unit_next_cell"
    /\ unit.next_cell # 0
    /\ unit.goal # unit.next_cell
    /\ ~Adjacent(unit.current_cell, unit.goal)
    /\ \E n \in Cells : Adjacent(unit.current_cell, n) /\ ~HasEdge(unit.current_cell, n)

\* the length of the step from the unit's cell to cell n
StepLength(n) ==
    distance(get_position_for_cell(unit.current_cell), get_position_for_cell(n))

\* C27: a unit's used_speed is always between 0 and its speed:
\* set_unit_next_cell schedules a step only when used_speed plus the step
\* distance does not exceed speed, otherwise it leaves used_speed and
\* current_cell unchanged and clears next_cell and move_timer while keeping
\* the goal; used_speed is reset to 0 only at a turn start of the unit's
\* controller.
C27_SpeedBudget ==
    /\ [](0 <= unit.used_speed /\ unit.used_speed <= unit.speed)
    /\ [][/\ unit'.next_cell # 0 /\ unit.next_cell = 0
              => /\ unit.used_speed + StepLength(unit'.next_cell) <= unit.speed
                 /\ unit'.used_speed = unit.used_speed + StepLength(unit'.next_cell)
          /\ unit'.used_speed > unit.used_speed
              => /\ last_system'.system = "set_unit_next_cell"
                 /\ unit.next_cell = 0
                 /\ unit'.next_cell # 0
          /\ (/\ last_system'.system = "set_unit_next_cell"
              /\ unit.goal # 0
              /\ unit.goal # unit.current_cell
              /\ unit.next_cell = 0
              /\ StepPath.some
              /\ unit.used_speed
                     + StepLength(StepPath.path[Len(StepPath.path) - 1]) > unit.speed)
              => /\ unit'.used_speed = unit.used_speed
                 /\ unit'.current_cell = unit.current_cell
                 /\ unit'.next_cell = 0
                 /\ unit'.move_timer = "None"
                 /\ unit'.goal = unit.goal
          /\ unit'.used_speed < unit.used_speed
              => /\ last_system' = [system |-> "turn_start", player |-> unit.controller]
                 /\ unit'.used_speed = 0]_vars

\* a step was refused for want of speed: the unit has moved, keeps its goal
\* and has neither a next cell nor a timer
C27_Witness ==
    /\ last_system.system = "set_unit_next_cell"
    /\ unit.used_speed > 0
    /\ unit.goal # 0
    /\ unit.goal # unit.current_cell
    /\ unit.next_cell = 0
    /\ unit.move_timer = "None"

\* the runs of load_llm that returned a handle
Loaded == {i \in 1..Len(loads) : loads[i].handle # "failed"}

\* C28: for any interleaving of concurrent get_llm calls,
\* load_llm runs at most one time and every caller receives the same handle.
C28_LoadRunsOnce ==
    /\ Len(loads) <= 1
    /\ \A p, q \in Tasks :
           task_pc[p] = "returned" /\ task_pc[q] = "returned"
               => task_handle[p] = task_handle[q]

\* C28, amended: for any interleaving of concurrent get_llm calls, load_llm
\* returns a handle at most once and runs only under the write guard while
\* LLM is empty; every call that returns, returns the handle of that one
\* load, whatever its own llm_mode; a call whose load_llm fails panics and
\* leaves LLM empty, so that a later call runs load_llm again.
C28_LoadedOnce ==
    /\ [](/\ Cardinality(Loaded) <= 1
          /\ Loaded = {} <=> LLM = "None"
          /\ \A i \in Loaded : LLM = loads[i].handle /\ i = Len(loads)
          /\ \A q \in Tasks :
                 /\ task_pc[q] = "returned" => task_handle[q] = LLM /\ LLM # "None"
                 /\ task_pc[q] = "panicked"
                        => \E i \in 1..Len(loads) :
                               loads[i].task = q /\ loads[i].handle = "failed"
          /\ rwlock.writer # 0 => rwlock.readers = {})
    /\ [][loads' # loads
              => /\ LLM = "None"
                 /\ rwlock.writer # 0
                 /\ task_pc[rwlock.writer] = "locked"
                 /\ loads' = Append(loads, [task |-> rwlock.writer,
                                            llm_mode |-> task_mode[rwlock.writer],
                                            handle |-> loads'[Len(loads')].handle])]_vars

\* two tasks found LLM empty; the load of the first failed, the second
\* loaded with another llm_mode, and a third task with a third call
\* returned the handle of the second
C28_Witness ==
    /\ Len(loads) = 2
    /\ loads[1].handle = "failed"
    /\ loads[2].handle = "no_llm"
    /\ \E q \in Tasks :
           /\ task_pc[q] = "returned"
           /\ task_mode[q] = "Some"
           /\ task_handle[q] = "no_llm"

\* the originals of a date
OfDate(S, d) == {e \in S : e.date = d}

Rank(st) ==
    CASE st = "World" -> 1
      [] st = "Settlements" -> 2
      [] st = "UnitSpawn" -> 3
      [] st = "Spawn" -> 4
      [] st = "Finshed" -> 5
      [] OTHER -> 0

\* C29: GenerationState only moves forward in the order World, Settlements,
\* UnitSpawn, Spawn, Finshed, never skipping or going back; it leaves
\* Settlements only when every player has a non-empty settlement_names list
\* and UnitSpawn only when every player has a non-empty bark list for every
\* one of its unit types, for every completion order of the background
\* tasks.
C29_ForwardOnly ==
    [][generation_state' # generation_state
           => /\ generation_state = "Absent" => generation_state' = "World"
              /\ generation_state' = "Absent" => generation_state = "Finshed"
              /\ Rank(generation_state) > 0 /\ Rank(generation_state') > 0
                     => Rank(generation_state') = Rank(generation_state) + 1
              /\ generation_state = "Settlements" => all_named(settlement_names)
              /\ generation_state = "UnitSpawn"
                     => \A p \in Players :
                            /\ DOMAIN unit_spawn_barks[p] = Range(civ_units[p])
                            /\ \A u \in Range(civ_units[p]) : unit_spawn_barks[p][u] > 0]_vars

\* the phase has run through to Finshed with a civilisation of two unit
\* types and one of one, the barks of the second arriving between those of
\* the first
C29_Witness ==
    /\ generation_state = "Finshed"
    /\ \E p, q \in Players :
           /\ Len(civ_units[p]) = 2
           /\ Len(civ_units[q]) = 1
           /\ all_barked(unit_spawn_barks)

\* C30: once world generation succeeds, the generation phase eventually
\* reaches GenerationState::Finshed provided every background LLM request
\* eventually completes, whatever each request returns and whatever units
\* each civilisation has.
C30_ReachesFinshed ==
    (world_map.some /\ generation_state = "World") ~> (generation_state = "Finshed")

====
